---- MODULE Spec2Model ----
(***************************************************************************)
(* A model of pdf_to_llm_converter: the PDFProcessor pipeline, the         *)
(* ContentMerger, the section hierarchy builders and the MarkdownConverter.*)
(*                                                                         *)
(* Strings are sequences of characters (one-character TLA+ strings), so    *)
(* that strip, split, join and the regular expressions of the code are     *)
(* computed and not assumed.  Floating point coordinates and confidences   *)
(* are modelled on an integer grid; a ratio is a pair <<num, den>>.        *)
(***************************************************************************)
EXTENDS Integers, Sequences, FiniteSets, TLC

(***************************************************************************)
(* Bounds of the model.                                                    *)
(***************************************************************************)
MaxPages == 2
MaxChunk == 2
MaxFlat == 3
MaxSpanPage == 2
MaxLevel == 3
MaxNative == 2
MaxOcr == 2
MaxDocPages == 2
MaxSections == 2
MaxRawLines == 3
MaxExtraIterations == 2
MaxBlocks == 3
MaxTables == 2

VARIABLES
    \* PDFProcessor.process
    pc, src_exists, src_openable, src_pages, chunk_size, total_pages,
    handles, gen_total, gen_next, page_range, page_num, classification,
    content, ocr_confidence, calls, pages, warnings, pages_skipped,
    attempted, raised, error, ret, prior,
    \* _build_section_hierarchy
    h_pc, flat_sections, hierarchy, md_hierarchy,
    \* ContentMerger.merge
    m_pc, native, ocr, merged,
    \* MarkdownConverter.to_markdown and from_markdown
    c_pc, doc_flat, document, markdown_str, page_chunks, chunk_k, all_sections,
    md_pages, scan_lines, scan_i, blocks, tables, iterations, restored

procVars == <<pc, src_exists, src_openable, src_pages, chunk_size, total_pages,
              handles, gen_total, gen_next, page_range, page_num, classification,
              content, ocr_confidence, calls, pages, warnings, pages_skipped,
              attempted, raised, error, ret, prior>>
hierVars == <<h_pc, flat_sections, hierarchy, md_hierarchy>>
mergeVars == <<m_pc, native, ocr, merged>>
codecVars == <<c_pc, doc_flat, document, markdown_str, page_chunks, chunk_k,
               all_sections, md_pages, scan_lines, scan_i, blocks, tables,
               iterations, restored>>
vars == <<procVars, hierVars, mergeVars, codecVars>>

(***************************************************************************)
(* Python built-ins used by the code.                                      *)
(***************************************************************************)
Max(a, b) == IF a >= b THEN a ELSE b
Min(a, b) == IF a <= b THEN a ELSE b

Last(s) == s[Len(s)]
Front(s) == SubSeq(s, 1, Len(s) - 1)

\* all sequences over S of length 0..n
SeqsUpTo(S, n) == UNION {[1..k -> S] : k \in 0..n}

IsSpace(c) == c \in {" ", "\n", "\t"}

RECURSIVE LStrip(_)
LStrip(s) == IF s # <<>> /\ IsSpace(Head(s)) THEN LStrip(Tail(s)) ELSE s

RECURSIVE RStrip(_)
RStrip(s) == IF s # <<>> /\ IsSpace(Last(s)) THEN RStrip(Front(s)) ELSE s

\* str.strip()
Strip(s) == RStrip(LStrip(s))

\* sep.join(parts)
RECURSIVE Join(_, _)
Join(parts, sep) ==
    IF parts = <<>> THEN <<>>
    ELSE IF Len(parts) = 1 THEN parts[1]
    ELSE parts[1] \o sep \o Join(Tail(parts), sep)

(***************************************************************************)
(* content_merger.py                                                       *)
(* A bbox is <<x0, y0, x1, y1>>.                                           *)
(***************************************************************************)
bbox_area(bbox) ==
    LET width == Max(0, bbox[3] - bbox[1])
        height == Max(0, bbox[4] - bbox[2])
    IN width * height

intersection_area(a, b) ==
    LET x0 == Max(a[1], b[1])
        y0 == Max(a[2], b[2])
        x1 == Min(a[3], b[3])
        y1 == Min(a[4], b[4])
        width == Max(0, x1 - x0)
        height == Max(0, y1 - y0)
    IN width * height

overlap_ratio_sum(a, b) ==
    LET area_a == bbox_area(a)
        area_b == bbox_area(b)
    IN IF area_a = 0 \/ area_b = 0 THEN <<0, 1>>
       ELSE <<intersection_area(a, b), area_a + area_b>>

\* the ratio intersection / min(area_a, area_b) as <<numerator, denominator>>
overlap_ratio(a, b) ==
    LET area_a == bbox_area(a)
        area_b == bbox_area(b)
    IN IF area_a = 0 \/ area_b = 0 THEN <<0, 1>>
       ELSE <<intersection_area(a, b), Min(area_a, area_b)>>

\* r > 0.5
GreaterThanHalf(r) == 2 * r[1] > r[2]
\* r >= 0.5
AtLeastHalf(r) == 2 * r[1] >= r[2]

is_duplicate_ge(native_blocks, ocr_block) ==
    \E i \in 1..Len(native_blocks) :
        AtLeastHalf(overlap_ratio(native_blocks[i].bbox, ocr_block.bbox))

\* the inner loop of merge: some native block overlaps the OCR block by more than 50%
is_duplicate(native_blocks, ocr_block) ==
    \E i \in 1..Len(native_blocks) :
        GreaterThanHalf(overlap_ratio(native_blocks[i].bbox, ocr_block.bbox))

RECURSIVE new_ocr_blocks(_, _)
new_ocr_blocks(native_blocks, ocr_blocks) ==
    IF ocr_blocks = <<>> THEN <<>>
    ELSE IF is_duplicate(native_blocks, Head(ocr_blocks))
         THEN new_ocr_blocks(native_blocks, Tail(ocr_blocks))
         ELSE <<Head(ocr_blocks)>> \o new_ocr_blocks(native_blocks, Tail(ocr_blocks))

AllTexts(bs) == [k \in 1..Len(bs) |-> bs[k].text]

\* [block.text for block in blocks if block.text.strip()]
RECURSIVE NonBlankTexts(_)
NonBlankTexts(bs) ==
    IF bs = <<>> THEN <<>>
    ELSE IF Strip(Head(bs).text) # <<>>
         THEN <<Head(bs).text>> \o NonBlankTexts(Tail(bs))
         ELSE NonBlankTexts(Tail(bs))

merge_ocr_first(native_content, ocr_result) ==
    LET kept == new_ocr_blocks(native_content.reading_order_blocks, ocr_result.blocks)
    IN [body_text |-> native_content.body_text,
        headers |-> native_content.headers,
        footers |-> native_content.footers,
        tables |-> native_content.tables,
        reading_order_blocks |-> kept \o native_content.reading_order_blocks]

merge(native_content, ocr_result) ==
    LET native_blocks == native_content.reading_order_blocks
        kept == new_ocr_blocks(native_blocks, ocr_result.blocks)
        merged_blocks == native_blocks \o kept
        ocr_extra_text == Join(NonBlankTexts(kept), <<"\n">>)
        merged_body ==
            IF native_content.body_text # <<>> /\ ocr_extra_text # <<>>
            THEN native_content.body_text \o <<"\n">> \o ocr_extra_text
            ELSE IF ocr_extra_text # <<>> THEN ocr_extra_text
            ELSE native_content.body_text
    IN [body_text |-> merged_body,
        headers |-> native_content.headers,
        footers |-> native_content.footers,
        tables |-> native_content.tables,
        reading_order_blocks |-> merged_blocks]

(***************************************************************************)
(* The section hierarchy builders.  The sections of flat_sections are      *)
(* objects that the code mutates in place: they are held in an arena       *)
(* (secs) and named by their index; subsections, root and stack hold       *)
(* indices.                                                                *)
(***************************************************************************)
RECURSIVE PP_pop_gt(_, _, _)
PP_pop_gt(secs, stack, level) ==
    IF stack # <<>> /\ secs[Last(stack)].level > level
    THEN PP_pop_gt(secs, Front(stack), level)
    ELSE stack

\* while stack and stack[-1].level >= section.level: stack.pop()
RECURSIVE PP_pop(_, _, _)
PP_pop(secs, stack, level) ==
    IF stack # <<>> /\ secs[Last(stack)].level >= level
    THEN PP_pop(secs, Front(stack), level)
    ELSE stack

\* parent.subsections.append(section); extend parent.page_end
PP_attach(st, stack, i) ==
    LET parent == Last(stack)
        section == st.secs[i]
    IN [secs |-> [st.secs EXCEPT
                     ![parent].subsections = Append(@, i),
                     ![parent].page_end =
                         IF section.page_end > @ THEN section.page_end ELSE @],
        root |-> st.root,
        stack |-> Append(stack, i)]

\* one iteration of the loop over flat_sections
PP_step(st, i) ==
    LET stack == PP_pop(st.secs, st.stack, st.secs[i].level)
    IN IF stack # <<>>
       THEN PP_attach(st, stack, i)
       ELSE [secs |-> st.secs, root |-> Append(st.root, i), stack |-> <<i>>]

RECURSIVE PP_loop(_, _)
PP_loop(st, i) ==
    IF i > Len(st.secs) THEN st ELSE PP_loop(PP_step(st, i), i + 1)

\* PDFProcessor._build_section_hierarchy: the mutated sections and the roots
PDFProcessor_build_section_hierarchy(flat) ==
    IF flat = <<>> THEN [secs |-> <<>>, root |-> <<>>]
    ELSE LET st == PP_loop([secs |-> flat, root |-> <<>>, stack |-> <<>>], 1)
         IN [secs |-> st.secs, root |-> st.root]

RECURSIVE MC_pop_gt(_, _, _)
MC_pop_gt(secs, stack, level) ==
    IF stack # <<>> /\ secs[Last(stack)].level > level
    THEN MC_pop_gt(secs, Front(stack), level)
    ELSE stack

\* MarkdownConverter._build_section_hierarchy:
\* while stack and stack[-1].level >= section.level: stack.pop()
RECURSIVE MC_pop(_, _, _)
MC_pop(secs, stack, level) ==
    IF stack # <<>> /\ secs[Last(stack)].level >= level
    THEN MC_pop(secs, Front(stack), level)
    ELSE stack

\* parent.subsections.append(section); update parent's page_end
MC_attach(st, stack, i) ==
    LET parent == Last(stack)
        section == st.secs[i]
    IN [secs |-> [st.secs EXCEPT
                     ![parent].subsections = Append(@, i),
                     ![parent].page_end =
                         IF section.page_end > @ THEN section.page_end ELSE @],
        root |-> st.root,
        stack |-> Append(stack, i)]

MC_step(st, i) ==
    LET stack == MC_pop(st.secs, st.stack, st.secs[i].level)
    IN IF stack # <<>>
       THEN MC_attach(st, stack, i)
       ELSE [secs |-> st.secs, root |-> Append(st.root, i), stack |-> <<i>>]

RECURSIVE MC_loop(_, _)
MC_loop(st, i) ==
    IF i > Len(st.secs) THEN st ELSE MC_loop(MC_step(st, i), i + 1)

\* MarkdownConverter._build_section_hierarchy
MarkdownConverter_build_section_hierarchy(flat) ==
    IF flat = <<>> THEN [secs |-> <<>>, root |-> <<>>]
    ELSE LET st == MC_loop([secs |-> flat, root |-> <<>>, stack |-> <<>>], 1)
         IN [secs |-> st.secs, root |-> st.root]

(***************************************************************************)
(* Inputs of the hierarchy builder and of the merger.                      *)
(***************************************************************************)
Levels == 1..MaxLevel

\* DocumentSection objects as heading detection and markup parsing make them,
\* with any page range
PageSpans == {r \in (1..MaxSpanPage) \X (1..MaxSpanPage) : r[1] <= r[2]}

FlatSectionInputs ==
    {[title |-> <<"A">>, level |-> l, content |-> <<>>,
      page_start |-> r[1], page_end |-> r[2], subsections |-> <<>>] :
        l \in Levels, r \in PageSpans}

NoHierarchy == [secs |-> <<>>, root |-> <<>>]

\* the boxes of the tests of the merger, a degenerate box, a contained box
\* and a box far away
BoxA == <<0, 0, 10, 10>>
BoxB == <<4, 0, 14, 10>>
BoxC == <<5, 0, 15, 10>>
BoxD == <<8, 0, 18, 10>>
BoxE == <<0, 0, 4, 10>>
BoxF == <<20, 0, 30, 10>>
BoxZ == <<0, 0, 0, 0>>

NativeBlockInputs ==
    {[text |-> <<"N">>, bbox |-> b, block_type |-> "paragraph"] : b \in {BoxA, BoxF, BoxZ}}

OcrBlockInputs ==
    {[text |-> t, bbox |-> b, block_type |-> "paragraph"] :
        t \in {<<"o">>, <<" ">>}, b \in {BoxA, BoxB, BoxC, BoxD, BoxE, BoxZ}}

NativeFrames ==
    {[body_text |-> <<>>, headers |-> <<>>, footers |-> <<>>, tables |-> <<>>],
     [body_text |-> <<"n">>, headers |-> << <<"h">> >>, footers |-> << <<"f">> >>,
      tables |-> << [rows |-> << << <<"c">> >> >>] >>]}

NativeContentInputs ==
    {[body_text |-> f.body_text, headers |-> f.headers, footers |-> f.footers,
      tables |-> f.tables, reading_order_blocks |-> bs] :
        f \in NativeFrames, bs \in SeqsUpTo(NativeBlockInputs, MaxNative)}

OcrResultInputs ==
    {[text |-> <<"o">>, confidence |-> 90, blocks |-> bs] :
        bs \in SeqsUpTo(OcrBlockInputs, MaxOcr)}

NoContent == [body_text |-> <<>>, headers |-> <<>>, footers |-> <<>>,
              tables |-> <<>>, reading_order_blocks |-> <<>>]
NoOcr == [text |-> <<>>, confidence |-> 0, blocks |-> <<>>]
NoCalls == [text_extractor |-> 0, ocr_engine |-> 0, content_merger |-> 0]

(***************************************************************************)
(* The parts of the state each specification leaves idle.                  *)
(***************************************************************************)
HierIdle ==
    /\ h_pc = "idle"
    /\ flat_sections = <<>>
    /\ hierarchy = NoHierarchy
    /\ md_hierarchy = <<>>

MergeIdle ==
    /\ m_pc = "idle"
    /\ native = NoContent
    /\ ocr = NoOcr
    /\ merged = NoContent

NoDocument == [sections |-> NoHierarchy, pages |-> <<>>]

CodecIdle ==
    /\ c_pc = "idle"
    /\ doc_flat = <<>>
    /\ document = NoDocument
    /\ markdown_str = <<>>
    /\ page_chunks = <<>>
    /\ chunk_k = 0
    /\ all_sections = <<>>
    /\ md_pages = <<>>
    /\ scan_lines = <<>>
    /\ scan_i = 0
    /\ blocks = <<>>
    /\ tables = <<>>
    /\ iterations = 0
    /\ restored = NoDocument

ProcIdle ==
    /\ pc = "idle"
    /\ src_exists = FALSE
    /\ src_openable = FALSE
    /\ src_pages = 0
    /\ chunk_size = 0
    /\ total_pages = 0
    /\ handles = 0
    /\ gen_total = 0
    /\ gen_next = 0
    /\ page_range = <<>>
    /\ page_num = 0
    /\ classification = "none"
    /\ content = NoContent
    /\ ocr_confidence = <<>>
    /\ calls = NoCalls
    /\ pages = <<>>
    /\ warnings = <<>>
    /\ pages_skipped = 0
    /\ attempted = <<>>
    /\ raised = <<>>
    /\ error = "none"
    /\ ret = <<>>
    /\ prior = <<>>

(***************************************************************************)
(* SpecHier: _build_section_hierarchy applied to a flat sequence.          *)
(***************************************************************************)
HierInit ==
    /\ h_pc = "call"
    /\ flat_sections \in SeqsUpTo(FlatSectionInputs, MaxFlat)
    /\ hierarchy = NoHierarchy
    /\ md_hierarchy = <<>>
    /\ ProcIdle
    /\ MergeIdle
    /\ CodecIdle

\* PDFProcessor._build_section_hierarchy(flat_sections)
HierBuild ==
    /\ h_pc = "call"
    /\ hierarchy' = PDFProcessor_build_section_hierarchy(flat_sections)
    /\ h_pc' = "returned"
    /\ UNCHANGED <<flat_sections, md_hierarchy, procVars, mergeVars, codecVars>>

\* MarkdownConverter._build_section_hierarchy on a copy of the same flat
\* sections: md_hierarchy holds the mutated sections and the roots
HierBuildMarkdown ==
    /\ h_pc \in {"call", "returned"}
    /\ md_hierarchy = <<>>
    /\ md_hierarchy' = <<MarkdownConverter_build_section_hierarchy(flat_sections)>>
    /\ UNCHANGED <<h_pc, flat_sections, hierarchy, procVars, mergeVars, codecVars>>

HierNext == HierBuild \/ HierBuildMarkdown

SpecHier == HierInit /\ [][HierNext]_vars

(***************************************************************************)
(* SpecMerge: ContentMerger.merge applied to a native and an OCR result.   *)
(***************************************************************************)
MergeInit ==
    /\ m_pc = "call"
    /\ native \in NativeContentInputs
    /\ ocr \in OcrResultInputs
    /\ merged = NoContent
    /\ ProcIdle
    /\ HierIdle
    /\ CodecIdle

MergeCall ==
    /\ m_pc = "call"
    /\ merged' = merge(native, ocr)
    /\ m_pc' = "returned"
    /\ UNCHANGED <<native, ocr, procVars, hierVars, codecVars>>

MergeNext == MergeCall

SpecMerge == MergeInit /\ [][MergeNext]_vars

(***************************************************************************)
(* Reading a returned forest.                                              *)
(***************************************************************************)
\* the sections that hold i among their subsections
ParentsOf(res, i) ==
    {j \in 1..Len(res.secs) :
        \E k \in 1..Len(res.secs[j].subsections) : res.secs[j].subsections[k] = i}

\* how often i stands in a list of indices
Occurrences(list, i) == Cardinality({k \in 1..Len(list) : list[k] = i})

RECURSIVE SumOver(_, _)
SumOver(f, S) ==
    IF S = {} THEN 0
    ELSE LET x == CHOOSE y \in S : TRUE IN f[x] + SumOver(f, S \ {x})

\* how often i stands in the forest, as a root or as a subsection
Placements(res, i) ==
    Occurrences(res.root, i)
    + SumOver([j \in 1..Len(res.secs) |-> Occurrences(res.secs[j].subsections, i)],
              1..Len(res.secs))

Ascending(list) == \A k \in 1..(Len(list) - 1) : list[k] < list[k + 1]

\* the pre-order traversal of the trees rooted at the sections of list;
\* fuel bounds the walk, so that it is defined on any graph
RECURSIVE PreOrder(_, _, _)
PreOrder(res, list, fuel) ==
    IF list = <<>> \/ fuel = 0 THEN <<>>
    ELSE <<Head(list)>>
         \o PreOrder(res, res.secs[Head(list)].subsections, fuel - 1)
         \o PreOrder(res, Tail(list), fuel)

\* the sections below i, at every depth
Descendants(res, i) ==
    {d \in 1..Len(res.secs) :
        \E k \in 1..Len(PreOrder(res, res.secs[i].subsections, Len(res.secs))) :
            PreOrder(res, res.secs[i].subsections, Len(res.secs))[k] = d}

\* the nearest section before i with a strictly smaller level, 0 if none
NearestShallower(flat, i) ==
    LET before == {j \in 1..(i - 1) : flat[j].level < flat[i].level}
    IN IF before = {} THEN 0 ELSE CHOOSE j \in before : \A k \in before : k <= j

SetMax(S) == CHOOSE x \in S : \A y \in S : y <= x

\* C4: the builder returns the forest in which the parent of every section is
\* the nearest preceding section of strictly smaller level, a section without
\* one is a root, roots and children keep the input order, every input
\* section stands in the forest exactly once and the pre-order traversal of
\* the forest is the input sequence.
HierarchyIsNearestShallowerForest ==
    h_pc = "returned" =>
        LET n == Len(flat_sections) IN
        /\ Len(hierarchy.secs) = n
        /\ \A i \in 1..n :
            /\ hierarchy.secs[i].level = flat_sections[i].level
            /\ hierarchy.secs[i].title = flat_sections[i].title
            /\ Placements(hierarchy, i) = 1
            /\ LET p == NearestShallower(flat_sections, i) IN
               IF p = 0
               THEN ParentsOf(hierarchy, i) = {} /\ Occurrences(hierarchy.root, i) = 1
               ELSE ParentsOf(hierarchy, i) = {p} /\ Occurrences(hierarchy.root, i) = 0
            /\ Ascending(hierarchy.secs[i].subsections)
        /\ Ascending(hierarchy.root)
        /\ PreOrder(hierarchy, hierarchy.root, n + 1) = [i \in 1..n |-> i]

\* a level-3 heading with no shallower heading before it is a root, and a
\* later level-2 heading nests under the level-1 heading between them
HierarchyDegenerateRootReached ==
    /\ h_pc = "returned"
    /\ Len(flat_sections) = 3
    /\ flat_sections[1].level = 3
    /\ flat_sections[2].level = 1
    /\ flat_sections[3].level = 2
    /\ hierarchy.root = <<1, 2>>
    /\ hierarchy.secs[2].subsections = <<3>>

\* C5: after the builder every section has pageEnd >= pageStart and the
\* pageEnd of every parent is the maximum of its own input pageEnd and the
\* pageEnd of all its descendants, at every depth.
PageEndCoversAllDescendants ==
    h_pc = "returned" =>
        \A i \in 1..Len(hierarchy.secs) :
            /\ hierarchy.secs[i].page_end >= hierarchy.secs[i].page_start
            /\ hierarchy.secs[i].page_end =
                   SetMax({flat_sections[i].page_end}
                          \cup {hierarchy.secs[d].page_end : d \in Descendants(hierarchy, i)})

(***************************************************************************)
(* Reading a merged result.                                                *)
(***************************************************************************)
\* the blocks of the result after the native blocks
OcrSurvivors ==
    SubSeq(merged.reading_order_blocks,
           Len(native.reading_order_blocks) + 1,
           Len(merged.reading_order_blocks))

\* twice the intersection of two boxes exceeds the smaller of their areas,
\* both areas being positive
OverlapsByMoreThanHalf(a, b) ==
    LET w(c) == IF c[3] > c[1] THEN c[3] - c[1] ELSE 0
        h(c) == IF c[4] > c[2] THEN c[4] - c[2] ELSE 0
        iw == Min(a[3], b[3]) - Max(a[1], b[1])
        ih == Min(a[4], b[4]) - Max(a[2], b[2])
        inter == IF iw > 0 /\ ih > 0 THEN iw * ih ELSE 0
        small == Min(w(a) * h(a), w(b) * h(b))
    IN small > 0 /\ 2 * inter > small

OverlapsSomeNative(block) ==
    \E i \in 1..Len(native.reading_order_blocks) :
        OverlapsByMoreThanHalf(native.reading_order_blocks[i].bbox, block.bbox)

KeptByRule(block) == ~OverlapsSomeNative(block)

\* C9: merge discards an OCR block if and only if some native block has an
\* overlap ratio strictly greater than 0.5 with it; at 0.5 or less against
\* every native block the OCR block is kept.  (0,0,10,10) against
\* (4,0,14,10) discards, against (8,0,18,10) and against (5,0,15,10) keeps.
OcrDiscardedIffOverlapAboveHalf ==
    m_pc = "returned" =>
        /\ OcrSurvivors = SelectSeq(ocr.blocks, KeptByRule)
        /\ \A k \in 1..Len(ocr.blocks) :
            (\E i \in 1..Len(native.reading_order_blocks) :
                native.reading_order_blocks[i].bbox = BoxA) =>
                /\ ocr.blocks[k].bbox = BoxB =>
                       \A j \in 1..Len(OcrSurvivors) : OcrSurvivors[j].bbox # BoxB
                /\ ocr.blocks[k].bbox \in {BoxC, BoxD} =>
                       \E j \in 1..Len(OcrSurvivors) : OcrSurvivors[j] = ocr.blocks[k]

\* against the native box (0,0,10,10) the OCR box at ratio 0.6 is discarded
\* and the OCR boxes at ratio 0.5 and 0.2 are kept
OcrThresholdCasesReached ==
    /\ m_pc = "returned"
    /\ Len(native.reading_order_blocks) = 1
    /\ native.reading_order_blocks[1].bbox = BoxA
    /\ Len(ocr.blocks) = 2
    /\ ocr.blocks[1].bbox = BoxB
    /\ ocr.blocks[2].bbox = BoxC
    /\ Len(merged.reading_order_blocks) = 2
    /\ merged.reading_order_blocks[2] = ocr.blocks[2]

\* C10 as stated: whenever an OCR block and a native block have identical
\* bounding boxes, merge discards the OCR block and keeps the native block.
IdenticalBoxesAlwaysDiscarded ==
    m_pc = "returned" =>
        /\ SubSeq(merged.reading_order_blocks, 1, Len(native.reading_order_blocks))
               = native.reading_order_blocks
        /\ \A i \in 1..Len(native.reading_order_blocks) :
               \A j \in 1..Len(OcrSurvivors) :
                   OcrSurvivors[j].bbox # native.reading_order_blocks[i].bbox

\* C10 as amended: whenever an OCR block and a native block have identical
\* bounding boxes of positive area, merge discards the OCR block and keeps
\* the native block.
IdenticalPositiveBoxesDiscarded ==
    m_pc = "returned" =>
        /\ SubSeq(merged.reading_order_blocks, 1, Len(native.reading_order_blocks))
               = native.reading_order_blocks
        /\ \A i \in 1..Len(native.reading_order_blocks) :
               LET b == native.reading_order_blocks[i].bbox IN
               (b[3] > b[1] /\ b[4] > b[2]) =>
                   \A j \in 1..Len(OcrSurvivors) : OcrSurvivors[j].bbox # b

\* a native block and an OCR block share the box (0,0,10,10): only the native
\* block is in the result
IdenticalBoxesMergedReached ==
    /\ m_pc = "returned"
    /\ Len(native.reading_order_blocks) = 1
    /\ native.reading_order_blocks[1].bbox = BoxA
    /\ Len(ocr.blocks) = 1
    /\ ocr.blocks[1].bbox = BoxA
    /\ merged.reading_order_blocks = native.reading_order_blocks

\* C18: the merged reading-order blocks are the native blocks in their order
\* followed by the surviving OCR blocks in their order; headers, footers and
\* tables are the native ones; merge leaves its inputs as they were.
MergeKeepsNativeThenSurvivors ==
    /\ [](m_pc = "returned" =>
            /\ merged.reading_order_blocks
                   = native.reading_order_blocks \o SelectSeq(ocr.blocks, KeptByRule)
            /\ merged.headers = native.headers
            /\ merged.footers = native.footers
            /\ merged.tables = native.tables)
    /\ [][native' = native /\ ocr' = ocr]_vars

\* two native blocks, headers, footers and a table, and two OCR blocks that
\* both survive
NativeThenTwoSurvivorsReached ==
    /\ m_pc = "returned"
    /\ Len(native.reading_order_blocks) = 2
    /\ native.headers # <<>>
    /\ native.tables # <<>>
    /\ Len(ocr.blocks) = 2
    /\ ocr.blocks[1].bbox = BoxD
    /\ ocr.blocks[2].bbox = BoxC
    /\ Len(merged.reading_order_blocks) = 4
    /\ merged.reading_order_blocks[3] = ocr.blocks[1]
    /\ merged.reading_order_blocks[4] = ocr.blocks[2]

\* the texts of the surviving OCR blocks
SurvivorTexts == [k \in 1..Len(OcrSurvivors) |-> OcrSurvivors[k].text]

\* the body made of the native body and the joined texts
BodyOf(texts) ==
    IF texts = <<>> THEN native.body_text
    ELSE IF native.body_text = <<>> THEN Join(texts, <<"\n">>)
    ELSE native.body_text \o <<"\n">> \o Join(texts, <<"\n">>)

\* C19 as stated: the merged body_text is the native body, a newline and the
\* newline-joined text of every surviving OCR block when one survives, the
\* joined text alone when the native body is empty, and the native body when
\* no OCR block survives.
BodyJoinsEverySurvivor ==
    m_pc = "returned" => merged.body_text = BodyOf(SurvivorTexts)

\* C19 amended: the same over the surviving OCR blocks whose text is not
\* blank; with no such block the body is the native body.
BodyJoinsNonBlankSurvivors ==
    m_pc = "returned" =>
        merged.body_text
            = BodyOf(SelectSeq(SurvivorTexts, LAMBDA t : \E k \in 1..Len(t) : ~IsSpace(t[k])))

\* a blank and a non-blank OCR block survive: the body gains one line
BlankSurvivorLeftOutOfBodyReached ==
    /\ m_pc = "returned"
    /\ native.body_text = <<"n">>
    /\ Len(OcrSurvivors) = 2
    /\ OcrSurvivors[1].text = <<" ">>
    /\ OcrSurvivors[2].text = <<"o">>
    /\ merged.body_text = <<"n", "\n", "o">>

(***************************************************************************)
(* pdf_processor.py and chunk_manager.py: PDFProcessor.process.            *)
(*                                                                         *)
(* The source is a file that may exist, may open as a PDF and has          *)
(* src_pages pages.  The classifier, the text extractor and the OCR engine *)
(* are external: each call returns one of a few results or raises.         *)
(* Confidences and the threshold are in hundredths.                        *)
(***************************************************************************)
PageClassification == {"native_text", "scanned", "mixed"}

\* ProcessingConfig.ocr_threshold
ocr_threshold == 70

Confidences == {ocr_threshold - 1, ocr_threshold, ocr_threshold + 1}

Heading(t, b) == [text |-> t, bbox |-> b, block_type |-> "heading"]
Paragraph(t, b) == [text |-> t, bbox |-> b, block_type |-> "paragraph"]
ListItem(t, b) == [text |-> t, bbox |-> b, block_type |-> "list_item"]

\* results of TextExtractor.extract
ProcNativeResults ==
    {[body_text |-> <<"A">>, headers |-> <<>>, footers |-> <<>>, tables |-> <<>>,
      reading_order_blocks |-> <<Heading(<<"A">>, BoxA)>>],
     [body_text |-> <<"p">>, headers |-> << <<"h">> >>, footers |-> <<>>, tables |-> <<>>,
      reading_order_blocks |->
          <<Paragraph(<<"p">>, BoxF), Heading(<<"#", "#", " ", "B">>, BoxA)>>]}

\* results of OCREngine.ocr_page
ProcOcrResults ==
    {[text |-> <<" ">>, confidence |-> ocr_threshold,
      blocks |-> <<Heading(<<" ">>, BoxD)>>],
     [text |-> <<"C">>, confidence |-> ocr_threshold,
      blocks |-> <<Heading(<<"#", "#", "#", " ", "C">>, BoxB)>>]}

extract_page_content_both(cls, native_result, ocr_result) ==
    [content |-> merge(native_result, ocr_result),
     calls |-> [text_extractor |-> 1, ocr_engine |-> 1, content_merger |-> 1]]

\* extract_page_content: the content and the calls it makes
extract_page_content(cls, native_result, ocr_result) ==
    IF cls = "native_text"
    THEN [content |-> native_result,
          calls |-> [text_extractor |-> 1, ocr_engine |-> 0, content_merger |-> 0]]
    ELSE IF cls = "scanned"
    THEN [content |-> [body_text |-> ocr_result.text, headers |-> <<>>,
                       footers |-> <<>>, tables |-> <<>>,
                       reading_order_blocks |-> ocr_result.blocks],
          calls |-> [text_extractor |-> 0, ocr_engine |-> 1, content_merger |-> 0]]
    ELSE [content |-> merge(native_result, ocr_result),
          calls |-> [text_extractor |-> 1, ocr_engine |-> 1, content_merger |-> 1]]

\* ChunkManager.iter_chunks: PageRange(start, min(start + chunk_size, total_pages))
page_range_no_min(start, size, total) == <<start, start + size>>

page_range_short(start, size, total) == <<start, Min(start + 1, total)>>

page_range_overlap(start, size, total) == <<Max(0, start - 1), Min(start + size, total)>>

page_range_of(start, size, total) == <<start, Min(start + size, total)>>

confidence_warnings_le(ws, p, confidence) ==
    IF confidence <= ocr_threshold
    THEN Append(ws, [kind |-> "low_confidence", page |-> p + 1,
                     cause |-> "", confidence |-> <<confidence>>])
    ELSE ws

\* the low-confidence warning of process
confidence_warnings(ws, p, confidence) ==
    IF confidence < ocr_threshold
    THEN Append(ws, [kind |-> "low_confidence", page |-> p + 1,
                     cause |-> "", confidence |-> <<confidence>>])
    ELSE ws

except_handler_no_count(ws, skipped, p, cause) ==
    [warnings |-> Append(ws, [kind |-> "corrupted", page |-> p + 1,
                              cause |-> cause, confidence |-> <<>>]),
     pages_skipped |-> skipped]

except_handler_page_index(ws, skipped, p, cause) ==
    [warnings |-> Append(ws, [kind |-> "corrupted", page |-> p,
                              cause |-> cause, confidence |-> <<>>]),
     pages_skipped |-> skipped + 1]

except_handler_prepend(ws, skipped, p, cause) ==
    [warnings |-> <<[kind |-> "corrupted", page |-> p + 1,
                     cause |-> cause, confidence |-> <<>>]>> \o ws,
     pages_skipped |-> skipped + 1]

\* except Exception: a warning naming the page, pages_skipped += 1
except_handler(ws, skipped, p, cause) ==
    [warnings |-> Append(ws, [kind |-> "corrupted", page |-> p + 1,
                              cause |-> cause, confidence |-> <<>>]),
     pages_skipped |-> skipped + 1]

RECURSIVE LeadingHashes(_)
LeadingHashes(text) ==
    IF text # <<>> /\ Head(text) = "#" THEN 1 + LeadingHashes(Tail(text)) ELSE 0

\* PDFProcessor._estimate_heading_level
estimate_heading_level(block) ==
    LET text == Strip(block.text)
        hashes == LeadingHashes(text)
    IN IF hashes >= 1 /\ hashes <= 6 THEN hashes ELSE 1

SectionsOfBlocks_blank_titles(bs, page_number) ==
    LET hs == SelectSeq(bs, LAMBDA b : b.block_type = "heading")
    IN [k \in 1..Len(hs) |->
           [title |-> Strip(hs[k].text), level |-> estimate_heading_level(hs[k]),
            content |-> <<>>, page_start |-> page_number,
            page_end |-> page_number, subsections |-> <<>>]]

RECURSIVE SectionsOfBlocks(_, _)
SectionsOfBlocks(bs, page_number) ==
    IF bs = <<>> THEN <<>>
    ELSE LET block == Head(bs)
             title == Strip(block.text)
         IN IF block.block_type # "heading" \/ title = <<>>
            THEN SectionsOfBlocks(Tail(bs), page_number)
            ELSE <<[title |-> title, level |-> estimate_heading_level(block),
                    content |-> <<>>, page_start |-> page_number,
                    page_end |-> page_number, subsections |-> <<>>]>>
                 \o SectionsOfBlocks(Tail(bs), page_number)

\* the flat sections of _detect_sections
RECURSIVE FlatSectionsOfPages(_)
FlatSectionsOfPages(ps) ==
    IF ps = <<>> THEN <<>>
    ELSE SectionsOfBlocks(Head(ps).content.reading_order_blocks, Head(ps).page_number)
         \o FlatSectionsOfPages(Tail(ps))

\* PDFProcessor._detect_sections
detect_sections(ps) == PDFProcessor_build_section_hierarchy(FlatSectionsOfPages(ps))

\* the position after page p of the chunk: the next page or the end of the chunk
AfterPage(p) == IF p + 1 < page_range[2] THEN "classify" ELSE "chunk_close"

\* the page raised: the handler runs and the loop goes on
SkipPage(cause) ==
    LET h == except_handler(warnings, pages_skipped, page_num, cause) IN
    /\ warnings' = h.warnings
    /\ pages_skipped' = h.pages_skipped
    /\ raised' = Append(raised, [page |-> page_num, stage |-> cause])
    /\ classification' = "none"
    /\ content' = NoContent
    /\ ocr_confidence' = <<>>
    /\ page_num' = page_num + 1
    /\ pc' = AfterPage(page_num)
    /\ UNCHANGED pages

ProcInit ==
    /\ pc = "start"
    /\ src_exists \in BOOLEAN
    /\ src_openable \in (IF src_exists THEN BOOLEAN ELSE {FALSE})
    /\ src_pages \in (IF src_openable THEN 0..MaxPages ELSE {0})
    /\ chunk_size \in -1..MaxChunk
    /\ total_pages = 0
    /\ handles = 0
    /\ gen_total = 0
    /\ gen_next = 0
    /\ page_range = <<>>
    /\ page_num = 0
    /\ classification = "none"
    /\ content = NoContent
    /\ ocr_confidence = <<>>
    /\ calls = NoCalls
    /\ pages = <<>>
    /\ warnings = <<>>
    /\ pages_skipped = 0
    /\ attempted = <<>>
    /\ raised = <<>>
    /\ error = "none"
    /\ ret = <<>>
    /\ prior = <<>>
    /\ HierIdle
    /\ MergeIdle
    /\ CodecIdle

CheckExists_absent ==
    /\ pc = "start"
    /\ pc' = "validate"
    /\ UNCHANGED <<src_exists, src_openable, src_pages, chunk_size, total_pages,
                   handles, gen_total, gen_next, page_range, page_num,
                   classification, content, ocr_confidence, calls, pages,
                   warnings, pages_skipped, attempted, raised, error, ret>>
    /\ UNCHANGED <<prior, hierVars, mergeVars, codecVars>>

\* os.path.exists
CheckExists ==
    /\ pc = "start"
    /\ IF src_exists
       THEN pc' = "validate" /\ UNCHANGED error
       ELSE pc' = "failed" /\ error' = "FileNotFoundError"
    /\ UNCHANGED <<src_exists, src_openable, src_pages, chunk_size, total_pages,
                   handles, gen_total, gen_next, page_range, page_num,
                   classification, content, ocr_confidence, calls, pages,
                   warnings, pages_skipped, attempted, raised, ret>>
    /\ UNCHANGED <<prior, hierVars, mergeVars, codecVars>>

\* test_doc = fitz.open(pdf_path); total_pages = len(test_doc)
ValidateOpen ==
    /\ pc = "validate"
    /\ IF src_openable
       THEN /\ handles' = handles + 1
            /\ total_pages' = src_pages
            /\ pc' = "validate_close"
            /\ UNCHANGED error
       ELSE /\ pc' = "failed"
            /\ error' = "RuntimeError"
            /\ UNCHANGED <<handles, total_pages>>
    /\ UNCHANGED <<src_exists, src_openable, src_pages, chunk_size,
                   gen_total, gen_next, page_range, page_num,
                   classification, content, ocr_confidence, calls, pages,
                   warnings, pages_skipped, attempted, raised, ret>>
    /\ UNCHANGED <<prior, hierVars, mergeVars, codecVars>>

\* test_doc.close()
ValidateClose ==
    /\ pc = "validate_close"
    /\ handles' = handles - 1
    /\ pc' = "iter_chunks"
    /\ UNCHANGED <<src_exists, src_openable, src_pages, chunk_size, total_pages,
                   gen_total, gen_next, page_range, page_num,
                   classification, content, ocr_confidence, calls, pages,
                   warnings, pages_skipped, attempted, raised, error, ret>>
    /\ UNCHANGED <<prior, hierVars, mergeVars, codecVars>>

IterChunksStart_unchecked ==
    /\ pc = "iter_chunks"
    /\ pc' = "page_count"
    /\ UNCHANGED <<src_exists, src_openable, src_pages, chunk_size, total_pages,
                   handles, gen_total, gen_next, page_range, page_num,
                   classification, content, ocr_confidence, calls, pages,
                   warnings, pages_skipped, attempted, raised, error, ret>>
    /\ UNCHANGED <<prior, hierVars, mergeVars, codecVars>>

\* the first next() of iter_chunks: the check of chunk_size
IterChunksStart ==
    /\ pc = "iter_chunks"
    /\ IF chunk_size <= 0
       THEN pc' = "failed" /\ error' = "ValueError"
       ELSE pc' = "page_count" /\ UNCHANGED error
    /\ UNCHANGED <<src_exists, src_openable, src_pages, chunk_size, total_pages,
                   handles, gen_total, gen_next, page_range, page_num,
                   classification, content, ocr_confidence, calls, pages,
                   warnings, pages_skipped, attempted, raised, ret>>
    /\ UNCHANGED <<prior, hierVars, mergeVars, codecVars>>

\* get_page_count: doc = fitz.open(pdf_path); count = len(doc)
GetPageCountOpen ==
    /\ pc = "page_count"
    /\ handles' = handles + 1
    /\ gen_total' = src_pages
    /\ pc' = "page_count_close"
    /\ UNCHANGED <<src_exists, src_openable, src_pages, chunk_size, total_pages,
                   gen_next, page_range, page_num,
                   classification, content, ocr_confidence, calls, pages,
                   warnings, pages_skipped, attempted, raised, error, ret>>
    /\ UNCHANGED <<prior, hierVars, mergeVars, codecVars>>

\* get_page_count: doc.close(); then range(0, total_pages, chunk_size) starts
GetPageCountClose ==
    /\ pc = "page_count_close"
    /\ handles' = handles - 1
    /\ gen_next' = 0
    /\ pc' = "next_chunk"
    /\ UNCHANGED <<src_exists, src_openable, src_pages, chunk_size, total_pages,
                   gen_total, page_range, page_num,
                   classification, content, ocr_confidence, calls, pages,
                   warnings, pages_skipped, attempted, raised, error, ret>>
    /\ UNCHANGED <<prior, hierVars, mergeVars, codecVars>>

\* iter_chunks yields the next PageRange, or is exhausted
NextChunk ==
    /\ pc = "next_chunk"
    /\ IF gen_next < gen_total
       THEN /\ page_range' = page_range_of(gen_next, chunk_size, gen_total)
            /\ gen_next' = gen_next + chunk_size
            /\ pc' = "chunk_open"
       ELSE /\ pc' = "summarize"
            /\ UNCHANGED <<page_range, gen_next>>
    /\ UNCHANGED <<src_exists, src_openable, src_pages, chunk_size, total_pages,
                   handles, gen_total, page_num,
                   classification, content, ocr_confidence, calls, pages,
                   warnings, pages_skipped, attempted, raised, error, ret>>
    /\ UNCHANGED <<prior, hierVars, mergeVars, codecVars>>

\* doc = fitz.open(pdf_path); for page_num in range(start, end)
ChunkOpen ==
    /\ pc = "chunk_open"
    /\ handles' = handles + 1
    /\ page_num' = page_range[1]
    /\ pc' = IF page_range[1] < page_range[2] THEN "classify" ELSE "chunk_close"
    /\ UNCHANGED <<src_exists, src_openable, src_pages, chunk_size, total_pages,
                   gen_total, gen_next, page_range,
                   classification, content, ocr_confidence, calls, pages,
                   warnings, pages_skipped, attempted, raised, error, ret>>
    /\ UNCHANGED <<prior, hierVars, mergeVars, codecVars>>

\* page = doc[page_num]; classification = page_classifier.classify(page)
Classify ==
    /\ pc = "classify"
    /\ attempted' = Append(attempted, [page |-> page_num, chunk |-> page_range])
    /\ calls' = NoCalls
    /\ \/ SkipPage("classify")
       \/ /\ classification' \in PageClassification
          /\ pc' = "extract"
          /\ UNCHANGED <<content, ocr_confidence, page_num, pages, warnings,
                         pages_skipped, raised>>
    /\ UNCHANGED <<src_exists, src_openable, src_pages, chunk_size, total_pages,
                   handles, gen_total, gen_next, page_range, error, ret>>
    /\ UNCHANGED <<prior, hierVars, mergeVars, codecVars>>

\* content = extract_page_content(...)
Extract ==
    /\ pc = "extract"
    /\ \/ SkipPage("extract") /\ UNCHANGED calls
       \/ \E n \in ProcNativeResults, o \in ProcOcrResults :
            LET r == extract_page_content(classification, n, o) IN
            /\ content' = r.content
            /\ calls' = r.calls
            /\ pc' = "confidence"
            /\ UNCHANGED <<classification, ocr_confidence, page_num, pages,
                           warnings, pages_skipped, raised>>
    /\ UNCHANGED <<src_exists, src_openable, src_pages, chunk_size, total_pages,
                   handles, gen_total, gen_next, page_range, attempted, error, ret>>
    /\ UNCHANGED <<prior, hierVars, mergeVars, codecVars>>

\* ocr_confidence: None for a native page, else a second OCR of the page
Confidence ==
    /\ pc = "confidence"
    /\ IF classification \in {"scanned", "mixed"}
       THEN \/ SkipPage("confidence")
            \/ \E c \in Confidences :
                 /\ ocr_confidence' = <<c>>
                 /\ warnings' = confidence_warnings(warnings, page_num, c)
                 /\ pc' = "append"
                 /\ UNCHANGED <<classification, content, page_num, pages,
                                pages_skipped, raised>>
       ELSE /\ ocr_confidence' = <<>>
            /\ pc' = "append"
            /\ UNCHANGED <<classification, content, page_num, pages, warnings,
                           pages_skipped, raised>>
    /\ UNCHANGED <<src_exists, src_openable, src_pages, chunk_size, total_pages,
                   handles, gen_total, gen_next, page_range, calls, attempted,
                   error, ret>>
    /\ UNCHANGED <<prior, hierVars, mergeVars, codecVars>>

AppendPage_number_in_chunk ==
    /\ pc = "append"
    /\ pages' = Append(pages, [page_number |-> page_num - page_range[1] + 1,
                               classification |-> classification,
                               content |-> content,
                               ocr_confidence |-> ocr_confidence])
    /\ classification' = "none"
    /\ content' = NoContent
    /\ ocr_confidence' = <<>>
    /\ page_num' = page_num + 1
    /\ pc' = AfterPage(page_num)
    /\ UNCHANGED <<src_exists, src_openable, src_pages, chunk_size, total_pages,
                   handles, gen_total, gen_next, page_range, calls, warnings,
                   pages_skipped, attempted, raised, error, ret>>
    /\ UNCHANGED <<prior, hierVars, mergeVars, codecVars>>

\* pages.append(PageContent(page_number=page_num + 1, ...))
AppendPage ==
    /\ pc = "append"
    /\ pages' = Append(pages, [page_number |-> page_num + 1,
                               classification |-> classification,
                               content |-> content,
                               ocr_confidence |-> ocr_confidence])
    /\ classification' = "none"
    /\ content' = NoContent
    /\ ocr_confidence' = <<>>
    /\ page_num' = page_num + 1
    /\ pc' = AfterPage(page_num)
    /\ UNCHANGED <<src_exists, src_openable, src_pages, chunk_size, total_pages,
                   handles, gen_total, gen_next, page_range, calls, warnings,
                   pages_skipped, attempted, raised, error, ret>>
    /\ UNCHANGED <<prior, hierVars, mergeVars, codecVars>>

ChunkClose_leak ==
    /\ pc = "chunk_close"
    /\ pc' = "next_chunk"
    /\ UNCHANGED <<src_exists, src_openable, src_pages, chunk_size, total_pages,
                   handles, gen_total, gen_next, page_range, page_num,
                   classification, content, ocr_confidence, calls, pages,
                   warnings, pages_skipped, attempted, raised, error, ret>>
    /\ UNCHANGED <<prior, hierVars, mergeVars, codecVars>>

\* finally: doc.close()
ChunkClose ==
    /\ pc = "chunk_close"
    /\ handles' = handles - 1
    /\ pc' = "next_chunk"
    /\ UNCHANGED <<src_exists, src_openable, src_pages, chunk_size, total_pages,
                   gen_total, gen_next, page_range, page_num,
                   classification, content, ocr_confidence, calls, pages,
                   warnings, pages_skipped, attempted, raised, error, ret>>
    /\ UNCHANGED <<prior, hierVars, mergeVars, codecVars>>

\* ProcessingSummary; return document, summary.  ret holds the pages of the
\* document and the summary; the sections of the document are a function of
\* its pages (DocumentOf)
Summarize ==
    /\ pc = "summarize"
    /\ \E elapsed \in {0, 1} :
         ret' = <<pages,
                  [total_pages |-> total_pages,
                   pages_processed |-> Len(pages),
                   pages_skipped |-> pages_skipped,
                   warnings |-> warnings,
                   processing_time_seconds |-> elapsed]>>
    /\ pc' = "done"
    /\ UNCHANGED <<src_exists, src_openable, src_pages, chunk_size, total_pages,
                   handles, gen_total, gen_next, page_range, page_num,
                   classification, content, ocr_confidence, calls, pages,
                   warnings, pages_skipped, attempted, raised, error>>
    /\ UNCHANGED <<prior, hierVars, mergeVars, codecVars>>

\* sections = self._detect_sections(pages); Document(sections=sections, pages=pages)
DocumentOf(ps) == [sections |-> detect_sections(ps), pages |-> ps]

Next ==
    \/ CheckExists
    \/ ValidateOpen
    \/ ValidateClose
    \/ IterChunksStart
    \/ GetPageCountOpen
    \/ GetPageCountClose
    \/ NextChunk
    \/ ChunkOpen
    \/ Classify
    \/ Extract
    \/ Confidence
    \/ AppendPage
    \/ ChunkClose
    \/ Summarize

Spec == ProcInit /\ [][Next]_vars

(***************************************************************************)
(* SpecTwoRuns: process called twice on the same source with two chunk     *)
(* sizes, the external calls giving for every page the same outcome in     *)
(* the second run as in the first.  prior holds what the first run did.    *)
(***************************************************************************)
\* the 0-based page indices attempted and not failed, in the order attempted
SucceededPages(att, rs) ==
    SelectSeq([k \in 1..Len(att) |-> att[k].page],
              LAMBDA p : \A j \in 1..Len(rs) : rs[j].page # p)

\* what the external calls did for page index p in a run: the stage that
\* raised, or the classification, content and confidence of the page
OutcomeOf(att, rs, ps, p) ==
    IF \E j \in 1..Len(rs) : rs[j].page = p
    THEN [failed |-> TRUE,
          stage |-> rs[CHOOSE j \in 1..Len(rs) : rs[j].page = p].stage]
    ELSE LET ok == SucceededPages(att, rs)
             r == CHOOSE k \in 1..Len(ok) : ok[k] = p
         IN [failed |-> FALSE,
             classification |-> ps[r].classification,
             content |-> ps[r].content,
             ocr_confidence |-> ps[r].ocr_confidence]

PriorOutcome(p) == OutcomeOf(prior[1].attempted, prior[1].raised, prior[1].pages, p)

\* the pages finished and the page in progress have the outcomes of the
\* first run
SameOutcomes ==
    prior # <<>> =>
        /\ \A j \in 1..Len(raised) :
              PriorOutcome(raised[j].page) = [failed |-> TRUE, stage |-> raised[j].stage]
        /\ \A k \in 1..Len(pages) :
              PriorOutcome(SucceededPages(attempted, raised)[k])
                  = [failed |-> FALSE,
                     classification |-> pages[k].classification,
                     content |-> pages[k].content,
                     ocr_confidence |-> pages[k].ocr_confidence]
        /\ pc = "extract" =>
              LET o == PriorOutcome(page_num) IN
              IF o.failed
              THEN \/ o.stage = "extract"
                   \/ o.stage = "confidence" /\ classification \in {"scanned", "mixed"}
              ELSE classification = o.classification
        /\ pc = "confidence" =>
              LET o == PriorOutcome(page_num) IN
              IF o.failed
              THEN o.stage = "confidence" /\ classification \in {"scanned", "mixed"}
              ELSE classification = o.classification /\ content = o.content
        /\ pc = "append" =>
              LET o == PriorOutcome(page_num) IN
              /\ ~o.failed
              /\ classification = o.classification
              /\ content = o.content
              /\ ocr_confidence = o.ocr_confidence

\* process has returned and is called again on the same source with another
\* positive chunk size
RunAgain ==
    /\ pc = "done"
    /\ prior = <<>>
    /\ prior' = <<[chunk_size |-> chunk_size,
                   attempted |-> attempted,
                   raised |-> raised,
                   pages |-> ret[1],
                   warnings |-> ret[2].warnings,
                   pages_processed |-> ret[2].pages_processed,
                   pages_skipped |-> ret[2].pages_skipped]>>
    /\ chunk_size' \in (1..MaxChunk) \ {chunk_size}
    /\ pc' = "start"
    /\ total_pages' = 0
    /\ handles' = 0
    /\ gen_total' = 0
    /\ gen_next' = 0
    /\ page_range' = <<>>
    /\ page_num' = 0
    /\ classification' = "none"
    /\ content' = NoContent
    /\ ocr_confidence' = <<>>
    /\ calls' = NoCalls
    /\ pages' = <<>>
    /\ warnings' = <<>>
    /\ pages_skipped' = 0
    /\ attempted' = <<>>
    /\ raised' = <<>>
    /\ error' = "none"
    /\ ret' = <<>>
    /\ UNCHANGED <<src_exists, src_openable, src_pages>>
    /\ UNCHANGED <<hierVars, mergeVars, codecVars>>

\* the results the extractors and the confidence OCR give in the two runs:
\* one native result, one OCR result, a confidence below or at the threshold
TwoRunsInputs ==
    /\ pc = "confidence" =>
          content = extract_page_content(
                        classification,
                        CHOOSE n \in ProcNativeResults : Len(n.reading_order_blocks) = 1,
                        CHOOSE o \in ProcOcrResults : o.text # <<" ">>).content
    /\ pc = "append" => ocr_confidence # <<ocr_threshold + 1>>

NextTwoRuns ==
    \/ Next /\ SameOutcomes' /\ TwoRunsInputs'
    \/ RunAgain

SpecTwoRuns == ProcInit /\ [][NextTwoRuns]_vars

(***************************************************************************)
(* Reading a run of process.                                               *)
(***************************************************************************)
Returned == pc = "done"
Document == DocumentOf(ret[1])
Summary == ret[2]

\* the 0-based indices of the pages for which an external call raised
FailedPages == {raised[k].page : k \in 1..Len(raised)}

\* the chunk of page index p for chunk size c and n pages
ChunkOf(p, c, n) == <<(p \div c) * c, Min((p \div c) * c + c, n)>>

\* C1: for every completed run the summary satisfies pages_processed +
\* pages_skipped = total_pages, with pages_skipped the number of failing
\* pages and pages_processed the number of pages of the document.
SummaryCountsAddUp ==
    Returned =>
        /\ Summary.pages_processed + Summary.pages_skipped = Summary.total_pages
        /\ Summary.total_pages = src_pages
        /\ Summary.pages_skipped = Cardinality(FailedPages)
        /\ Summary.pages_skipped = Len(raised)
        /\ Summary.pages_processed = Len(Document.pages)

\* a run over two pages in which one page failed and one was processed
SummaryWithSkippedPageReached ==
    /\ Returned
    /\ Summary.total_pages = 2
    /\ Summary.pages_skipped = 1
    /\ Summary.pages_processed = 1
    /\ Len(raised) = 1

\* C2: when classification, extraction or the confidence OCR raises for page
\* p, pages_skipped grows by one, exactly one warning naming the 1-based
\* number of p is appended, no PageContent is added for p and the pages and
\* warnings accumulated before are unchanged; no other step skips a page.
FailingPageIsSkippedAlone ==
    [][ /\ raised' # raised =>
            /\ raised' = Append(raised, [page |-> page_num, stage |-> Last(raised').stage])
            /\ Last(raised').stage \in {"classify", "extract", "confidence"}
            /\ pages_skipped' = pages_skipped + 1
            /\ Len(warnings') = Len(warnings) + 1
            /\ SubSeq(warnings', 1, Len(warnings)) = warnings
            /\ Last(warnings').kind = "corrupted"
            /\ Last(warnings').page = page_num + 1
            /\ pages' = pages
            /\ \A k \in 1..Len(pages') : pages'[k].page_number # page_num + 1
            /\ page_num' = page_num + 1
        /\ raised' = raised => pages_skipped' = pages_skipped
        /\ \A k \in 1..Len(pages) : Len(pages') >= k /\ pages'[k] = pages[k]
      ]_vars

\* the confidence OCR of page 2 raised after its content had been extracted:
\* page 1 alone is in the document, with one warning naming page 2
SkippedAfterExtractionReached ==
    /\ Len(raised) = 1
    /\ raised[1] = [page |-> 1, stage |-> "confidence"]
    /\ Len(pages) = 1
    /\ pages[1].page_number = 1
    /\ pages_skipped = 1
    /\ Len(warnings) = 1
    /\ warnings[1].kind = "corrupted"
    /\ warnings[1].page = 2

\* the pages whose iteration has ended, and a bound on the steps a run has left
PagesFinished == Len(pages) + pages_skipped

StepsLeft ==
    LET r == src_pages - PagesFinished IN
    CASE pc = "start" -> 10 * src_pages + 16
      [] pc = "validate" -> 10 * src_pages + 15
      [] pc = "validate_close" -> 10 * src_pages + 14
      [] pc = "iter_chunks" -> 10 * src_pages + 13
      [] pc = "page_count" -> 10 * src_pages + 12
      [] pc = "page_count_close" -> 10 * src_pages + 11
      [] pc = "next_chunk" -> 10 * r + 5
      [] pc = "chunk_open" -> 10 * r + 4
      [] pc = "classify" -> 10 * r + 3
      [] pc = "extract" -> 10 * r + 2
      [] pc = "confidence" -> 10 * r + 1
      [] pc = "append" -> 10 * r
      [] pc = "chunk_close" -> 10 * r + 6
      [] pc = "summarize" -> 2
      [] pc = "done" -> 1
      [] OTHER -> 0

\* C3: once validation has passed and chunk_size > 0 no per-page failure
\* aborts the run: every page index of [0, N) is attempted exactly once, in
\* ascending order, chunk by chunk, and process reaches Done and returns a
\* document and a summary; a run fails only before the first page is
\* attempted, in validation or on chunk_size <= 0.  Reaching Done is stated
\* as: a run that has neither returned nor failed can take a step, and every
\* step lowers the bound StepsLeft.
RunCompletesOverAllPages ==
    /\ [](Returned =>
            /\ attempted = [k \in 1..src_pages |->
                               [page |-> k - 1, chunk |-> ChunkOf(k - 1, chunk_size, src_pages)]]
            /\ Len(ret) = 2
            /\ error = "none")
    /\ [](pc = "failed" =>
            /\ attempted = <<>>
            /\ ret = <<>>
            /\ \/ error = "FileNotFoundError" /\ ~src_exists
               \/ error = "RuntimeError" /\ ~src_openable
               \/ error = "ValueError" /\ chunk_size <= 0)
    /\ [](\A k \in 1..Len(attempted) : attempted[k].page = k - 1)
    /\ [](pc \notin {"done", "failed"} => ENABLED Next)
    /\ [](StepsLeft >= 0)
    /\ [][StepsLeft' < StepsLeft]_vars

\* a completed run over two chunks in which every page failed
AllPagesFailedRunReached ==
    /\ Returned
    /\ src_pages = 2
    /\ chunk_size = 1
    /\ Len(attempted) = 2
    /\ Len(raised) = 2
    /\ Document.pages = <<>>

\* the ranges iter_chunks has yielded, read from the pages attempted: every
\* yielded range is non-empty and each of its pages is attempted
YieldedRanges == {attempted[k].chunk : k \in 1..Len(attempted)}

\* C11: for N >= 0 pages and chunk size C > 0 iter_chunks yields ceil(N / C)
\* ranges, each non-empty and of at most C pages, each starting where the
\* previous one ended (the first at 0), and it is exhausted exactly when the
\* last range ended at N (with no range when N = 0).
ChunksPartitionThePages ==
    /\ [][pc = "next_chunk" /\ pc' = "chunk_open" =>
            /\ page_range'[1] = (IF page_range = <<>> THEN 0 ELSE page_range[2])
            /\ page_range'[1] < page_range'[2]
            /\ page_range'[2] - page_range'[1] <= chunk_size
            /\ page_range'[2] <= src_pages]_vars
    /\ [][pc = "next_chunk" /\ pc' = "summarize" =>
            IF page_range = <<>> THEN src_pages = 0 ELSE page_range[2] = src_pages]_vars
    /\ [](Returned =>
            Cardinality(YieldedRanges) = (src_pages + chunk_size - 1) \div chunk_size)

\* two pages in chunks of one page: two ranges
TwoChunksYieldedReached ==
    /\ Returned
    /\ src_pages = 2
    /\ chunk_size = 1
    /\ YieldedRanges = {<<0, 1>>, <<1, 2>>}

\* C12: with chunk_size <= 0 on an existing, valid source the run fails with
\* ValueError after validation: no page count is taken, no range is yielded,
\* no chunk handle is opened, no page is classified or extracted and nothing
\* is returned.
NonPositiveChunkSizeFailsBeforeAnyPage ==
    src_exists /\ src_openable /\ chunk_size <= 0 =>
        /\ pc \in {"start", "validate", "validate_close", "iter_chunks", "failed"}
        /\ handles = (IF pc = "validate_close" THEN 1 ELSE 0)
        /\ gen_total = 0
        /\ page_range = <<>>
        /\ attempted = <<>>
        /\ calls = NoCalls
        /\ pages = <<>>
        /\ ret = <<>>
        /\ pc = "failed" => error = "ValueError"
        /\ pc # "failed" => ENABLED Next

ValueErrorOnValidSourceReached ==
    /\ pc = "failed"
    /\ error = "ValueError"
    /\ src_exists /\ src_openable
    /\ src_pages = 2
    /\ chunk_size = 0

\* C13: a missing source fails with FileNotFoundError and an existing source
\* that does not open fails with RuntimeError, both in validation: before the
\* check of chunk_size, with no page attempted and nothing returned.
MissingOrInvalidSourceFailsInValidation ==
    ~(src_exists /\ src_openable) =>
        /\ pc \in (IF src_exists THEN {"start", "validate", "failed"}
                   ELSE {"start", "failed"})
        /\ handles = 0
        /\ gen_total = 0
        /\ page_range = <<>>
        /\ attempted = <<>>
        /\ calls = NoCalls
        /\ pages = <<>>
        /\ ret = <<>>
        /\ pc = "failed" =>
               error = (IF src_exists THEN "RuntimeError" ELSE "FileNotFoundError")
        /\ pc # "failed" => ENABLED Next

\* a missing source with a chunk size of 0 reports not-found
NotFoundBeforeChunkSizeReached ==
    /\ pc = "failed"
    /\ error = "FileNotFoundError"
    /\ ~src_exists
    /\ chunk_size = 0

\* C14: extract_page_content calls the extractors of the classification:
\* native_text the text extractor alone; scanned the OCR engine alone,
\* returning its text and blocks with no headers, footers or tables; mixed
\* the text extractor, the OCR engine and the merger once each, returning
\* the merge of the two results.
ExtractionCallsMatchClassification ==
    pc = "confidence" =>
        /\ classification = "native_text" =>
              /\ calls = [text_extractor |-> 1, ocr_engine |-> 0, content_merger |-> 0]
              /\ content \in ProcNativeResults
        /\ classification = "scanned" =>
              /\ calls = [text_extractor |-> 0, ocr_engine |-> 1, content_merger |-> 0]
              /\ \E o \in ProcOcrResults :
                    content = [body_text |-> o.text, headers |-> <<>>,
                               footers |-> <<>>, tables |-> <<>>,
                               reading_order_blocks |-> o.blocks]
        /\ classification = "mixed" =>
              /\ calls = [text_extractor |-> 1, ocr_engine |-> 1, content_merger |-> 1]
              /\ \E n \in ProcNativeResults, o \in ProcOcrResults :
                    content = merge(n, o)

MixedPageMergedReached ==
    /\ pc = "confidence"
    /\ classification = "mixed"
    /\ calls.content_merger = 1
    /\ Len(content.reading_order_blocks) = 2

\* the low-confidence warnings that name 1-based page n
LowConfidenceWarnings(ws, n) ==
    {k \in 1..Len(ws) : ws[k].kind = "low_confidence" /\ ws[k].page = n}

\* C15: for a scanned or mixed page whose confidence OCR succeeds a warning
\* naming the 1-based page is appended iff the confidence is below
\* ocr_threshold (none at the threshold); the page is appended with its
\* ocr_confidence and is not skipped; a native_text page has ocr_confidence
\* None and no such warning.
LowConfidenceWarnsBelowThreshold ==
    /\ [][pc = "confidence" /\ pc' = "append" =>
            /\ pages_skipped' = pages_skipped
            /\ IF classification \in {"scanned", "mixed"}
               THEN /\ Len(ocr_confidence') = 1
                    /\ IF ocr_confidence'[1] < ocr_threshold
                       THEN warnings' = Append(warnings,
                                [kind |-> "low_confidence", page |-> page_num + 1,
                                 cause |-> "", confidence |-> ocr_confidence'])
                       ELSE warnings' = warnings
               ELSE ocr_confidence' = <<>> /\ warnings' = warnings]_vars
    /\ [][pc = "append" =>
            /\ pages' = Append(pages, [page_number |-> page_num + 1,
                                       classification |-> classification,
                                       content |-> content,
                                       ocr_confidence |-> ocr_confidence])
            /\ pages_skipped' = pages_skipped
            /\ warnings' = warnings]_vars
    /\ [](Returned =>
            \A k \in 1..Len(ret[1]) :
                LET page == ret[1][k]
                    ws == LowConfidenceWarnings(Summary.warnings, page.page_number)
                IN IF page.classification = "native_text"
                   THEN page.ocr_confidence = <<>> /\ ws = {}
                   ELSE /\ Len(page.ocr_confidence) = 1
                        /\ page.ocr_confidence[1] < ocr_threshold => Cardinality(ws) = 1
                        /\ page.ocr_confidence[1] >= ocr_threshold => ws = {})

\* a page below the threshold and a page at the threshold: one warning
WarningBelowNotAtThresholdReached ==
    /\ Returned
    /\ Len(ret[1]) = 2
    /\ ret[1][1].ocr_confidence = <<ocr_threshold - 1>>
    /\ ret[1][2].ocr_confidence = <<ocr_threshold>>
    /\ Len(Summary.warnings) = 1
    /\ Summary.warnings[1].kind = "low_confidence"
    /\ Summary.warnings[1].page = 1
    /\ Summary.pages_skipped = 0

\* C16: for any completed run the i-th page of the document has page_number
\* i, whatever pages failed.
PageNumbersContiguousFromOne ==
    Returned => \A i \in 1..Len(ret[1]) : ret[1][i].page_number = i

\* C17: the pages of the document are in strictly ascending page-number
\* order without duplicates, each page_number the 0-based index of a page
\* that did not fail plus one; a completed run holds every such page.
PagesAscendingByIndex ==
    /\ \A k \in 1..Len(pages) :
          /\ pages[k].page_number - 1 \in 0..(src_pages - 1)
          /\ pages[k].page_number - 1 \notin FailedPages
          /\ \E j \in 1..Len(attempted) : attempted[j].page = pages[k].page_number - 1
          /\ k > 1 => pages[k - 1].page_number < pages[k].page_number
    /\ Returned =>
          /\ ret[1] = pages
          /\ {pages[k].page_number : k \in 1..Len(pages)}
                 = {p + 1 : p \in (0..(src_pages - 1)) \ FailedPages}

\* the first of two pages failed: the document holds page 2 alone
SecondPageAloneReached ==
    /\ Returned
    /\ src_pages = 2
    /\ chunk_size = 2
    /\ FailedPages = {0}
    /\ Len(ret[1]) = 1
    /\ ret[1][1].page_number = 2

\* the positions of process at which a document handle is open
HandleOpenAt == {"validate_close", "page_count_close", "classify", "extract",
                 "confidence", "append", "chunk_close"}

\* C27: during process at most one document handle is open at any time: the
\* validation handle and the page-count handle are closed before the first
\* chunk handle is opened, each chunk opens one handle and closes it before
\* the next chunk's handle is opened, also when pages of the chunk fail, and
\* no handle is open when process returns.
AtMostOneHandleOpen ==
    /\ [](handles = (IF pc \in HandleOpenAt THEN 1 ELSE 0))
    /\ [][handles' > handles => handles = 0 /\ handles' = 1]_vars
    /\ [][pc = "chunk_open" => handles' = handles + 1]_vars
    /\ [][pc = "next_chunk" => handles = 0]_vars
    /\ [][raised' # raised => handles' = handles /\ handles = 1]_vars
    /\ [][pc # "chunk_close" /\ pc' = "next_chunk" => page_range = <<>>]_vars
    /\ [](Returned => handles = 0)

\* the first chunk lost its page and was closed; the second chunk holds the
\* only open handle
SecondChunkHandleAfterFailureReached ==
    /\ pc = "classify"
    /\ chunk_size = 1
    /\ page_range = <<1, 2>>
    /\ FailedPages = {0}
    /\ handles = 1

\* the 1-based page numbers of the warnings, in the order of the list
WarningPages(ws) == [k \in 1..Len(ws) |-> ws[k].page]

\* C29: the warnings are in non-decreasing order of page number, each page
\* has at most one warning (a skip warning or a low-confidence warning,
\* never both) and the number of skip warnings is pages_skipped.
WarningsOrderedOnePerPage ==
    /\ \A k \in 1..Len(warnings) :
          /\ k > 1 => warnings[k - 1].page < warnings[k].page
          /\ warnings[k].kind \in {"corrupted", "low_confidence"}
    /\ Cardinality({k \in 1..Len(warnings) : warnings[k].kind = "corrupted"})
           = pages_skipped
    /\ Returned => Summary.warnings = warnings /\ Summary.pages_skipped = pages_skipped

\* a low-confidence page 1 and a skipped page 2
LowConfidenceThenSkipWarningReached ==
    /\ Returned
    /\ Len(Summary.warnings) = 2
    /\ Summary.warnings[1].kind = "low_confidence"
    /\ Summary.warnings[1].page = 1
    /\ Summary.warnings[2].kind = "corrupted"
    /\ Summary.warnings[2].page = 2
    /\ Summary.pages_skipped = 1
    /\ Len(ret[1]) = 1

\* C26: the result of process does not depend on the chunk size: for a fixed
\* source and fixed per-page outcomes, two positive chunk sizes give the same
\* pages, the same derived sections, the same warnings and the same
\* pages_processed and pages_skipped.  The second run can replay the
\* outcomes of the first to its end.
ChunkSizeDoesNotChangeResult ==
    /\ Returned /\ prior # <<>> =>
          /\ chunk_size # prior[1].chunk_size
          /\ ret[1] = prior[1].pages
          /\ DocumentOf(ret[1]).sections = DocumentOf(prior[1].pages).sections
          /\ Summary.warnings = prior[1].warnings
          /\ Summary.pages_processed = prior[1].pages_processed
          /\ Summary.pages_skipped = prior[1].pages_skipped
    /\ prior # <<>> /\ pc # "done" => ENABLED NextTwoRuns

\* two pages, first in chunks of one page and then in one chunk of two: page
\* 1 has a low confidence and page 2 is skipped in both runs
SameResultInOneAndTwoChunksReached ==
    /\ Returned
    /\ prior # <<>>
    /\ prior[1].chunk_size = 1
    /\ chunk_size = 2
    /\ src_pages = 2
    /\ Len(ret[1]) = 1
    /\ ret[1][1].page_number = 1
    /\ Len(Summary.warnings) = 2
    /\ Summary.warnings[1].kind = "low_confidence"
    /\ Summary.warnings[2].kind = "corrupted"
    /\ YieldedRanges = {<<0, 2>>}

(***************************************************************************)
(* markdown_converter.py: strings.                                         *)
(***************************************************************************)
Digits == <<"0", "1", "2", "3", "4", "5", "6", "7", "8", "9">>
UpperCase == <<"A", "B", "C", "D", "E", "F", "G", "H", "I", "J", "K", "L", "M",
               "N", "O", "P", "Q", "R", "S", "T", "U", "V", "W", "X", "Y", "Z">>
LowerCase == <<"a", "b", "c", "d", "e", "f", "g", "h", "i", "j", "k", "l", "m",
               "n", "o", "p", "q", "r", "s", "t", "u", "v", "w", "x", "y", "z">>

IsDigit(c) == \E d \in 1..10 : Digits[d] = c
DigitValue(c) == (CHOOSE d \in 1..10 : Digits[d] = c) - 1

\* str(n) of a natural number
RECURSIVE NatStr(_)
NatStr(n) ==
    IF n < 10 THEN <<Digits[n + 1]>>
    ELSE NatStr(n \div 10) \o <<Digits[(n % 10) + 1]>>

\* f"{n}" of an integer
IntStr(n) == IF n < 0 THEN <<"-">> \o NatStr(0 - n) ELSE NatStr(n)

\* int(s) of a run of digits
RECURSIVE ParseInt(_)
ParseInt(s) ==
    IF s = <<>> THEN 0 ELSE 10 * ParseInt(Front(s)) + DigitValue(Last(s))

\* str.lower() of one character
Lower(c) ==
    IF \E k \in 1..26 : UpperCase[k] = c
    THEN LowerCase[CHOOSE k \in 1..26 : UpperCase[k] = c]
    ELSE c

\* \w of a regular expression
IsWordChar(c) ==
    \/ \E k \in 1..26 : UpperCase[k] = c \/ LowerCase[k] = c
    \/ IsDigit(c)
    \/ c = "_"

\* s * n
RECURSIVE Repeat(_, _)
Repeat(s, n) == IF n <= 0 THEN <<>> ELSE s \o Repeat(s, n - 1)

\* s[k:].startswith(p), k counted from 1
StartsWithAt(s, p, k) ==
    /\ k + Len(p) - 1 <= Len(s)
    /\ SubSeq(s, k, k + Len(p) - 1) = p

StartsWith(s, p) == StartsWithAt(s, p, 1)

EndsWith(s, p) == Len(p) <= Len(s) /\ SubSeq(s, Len(s) - Len(p) + 1, Len(s)) = p

\* the first position at or after from where p stands in s, 0 if none
IndexOf(s, p, from) ==
    LET ks == {k \in from..(Len(s) - Len(p) + 1) : StartsWithAt(s, p, k)}
    IN IF ks = {} THEN 0 ELSE CHOOSE k \in ks : \A j \in ks : k <= j

\* s[k - 1:], k counted from 1
From(s, k) == SubSeq(s, k, Len(s))

\* s.split(c) for a one-character separator
RECURSIVE Split(_, _)
Split(s, c) ==
    LET k == IndexOf(s, <<c>>, 1)
    IN IF k = 0 THEN <<s>>
       ELSE <<SubSeq(s, 1, k - 1)>> \o Split(From(s, k + 1), c)

RECURSIVE LStripChar(_, _)
LStripChar(s, c) == IF s # <<>> /\ Head(s) = c THEN LStripChar(Tail(s), c) ELSE s

RECURSIVE RStripChar(_, _)
RStripChar(s, c) == IF s # <<>> /\ Last(s) = c THEN RStripChar(Front(s), c) ELSE s

\* s.strip(c) for one character
StripChar(s, c) == RStripChar(LStripChar(s, c), c)

\* the number of whitespace characters s starts with
RECURSIVE LeadingSpaces(_)
LeadingSpaces(s) ==
    IF s # <<>> /\ IsSpace(Head(s)) THEN 1 + LeadingSpaces(Tail(s)) ELSE 0

\* the number of digits s has from position k on
RECURSIVE DigitsRun(_, _)
DigitsRun(s, k) ==
    IF k <= Len(s) /\ IsDigit(s[k]) THEN 1 + DigitsRun(s, k + 1) ELSE 0

\* [p for p in parts if p]
NonEmpty(parts) == SelectSeq(parts, LAMBDA p : p # <<>>)

NL == <<"\n">>
NLNL == <<"\n", "\n">>

\* the fixed texts of the markup
TOC_OPEN == <<"<", "!", "-", "-", " ", "t", "o", "c", " ", "-", "-", ">">>
TOC_CLOSE == <<"<", "!", "-", "-", " ", "/", "t", "o", "c", " ", "-", "-", ">">>
PAGE_OPEN == <<"<", "!", "-", "-", " ", "p", "a", "g", "e", ":", " ">>
SECTION_OPEN == <<"<", "!", "-", "-", " ", "s", "e", "c", "t", "i", "o", "n", ":", " ">>
COMMENT_CLOSE == <<" ", "-", "-", ">">>
SECTION_PREFIX == <<"<", "!", "-", "-", " ", "s", "e", "c", "t", "i", "o", "n", ":">>
PAGE_PREFIX == <<"<", "!", "-", "-", " ", "p", "a", "g", "e", ":">>

(***************************************************************************)
(* MarkdownConverter.to_markdown.                                          *)
(***************************************************************************)
\* re.sub(r"[^\w\s-]", "", slug)
RECURSIVE KeepSlugChars(_)
KeepSlugChars(s) ==
    IF s = <<>> THEN <<>>
    ELSE IF IsWordChar(Head(s)) \/ IsSpace(Head(s)) \/ Head(s) = "-"
         THEN <<Head(s)>> \o KeepSlugChars(Tail(s))
         ELSE KeepSlugChars(Tail(s))

\* re.sub(r"[\s_]+", "-", slug) followed by re.sub(r"-+", "-", slug)
RECURSIVE Hyphenate(_)
Hyphenate(s) ==
    IF s = <<>> THEN <<>>
    ELSE LET c == IF IsSpace(Head(s)) \/ Head(s) = "_" THEN "-" ELSE Head(s)
             rest == Hyphenate(Tail(s))
         IN IF c = "-" /\ rest # <<>> /\ Head(rest) = "-" THEN rest
            ELSE <<c>> \o rest

\* MarkdownConverter._slugify
slugify(text) ==
    LET lowered == Strip([k \in 1..Len(text) |-> Lower(text[k])])
    IN StripChar(Hyphenate(KeepSlugChars(lowered)), "-")

\* MarkdownConverter._collect_toc_entries over the sections named by list
collect_toc_roots(res, list, depth) ==
    [k \in 1..Len(list) |->
        <<depth, res.secs[list[k]].title, res.secs[list[k]].page_start,
          res.secs[list[k]].page_end>>]

RECURSIVE collect_toc_entries(_, _, _)
collect_toc_entries(res, list, depth) ==
    IF list = <<>> THEN <<>>
    ELSE LET section == res.secs[Head(list)]
         IN << <<depth, section.title, section.page_start, section.page_end>> >>
            \o collect_toc_entries(res, section.subsections, depth + 1)
            \o collect_toc_entries(res, Tail(list), depth)

toc_line(entry) ==
    Repeat(<<" ", " ">>, entry[1]) \o <<"-", " ", "[">> \o entry[2]
    \o <<"]", "(", "#">> \o slugify(entry[2]) \o <<")", " ", "(", "p", ".", " ">>
    \o IntStr(entry[3]) \o <<"-">> \o IntStr(entry[4]) \o <<")">>

\* MarkdownConverter._generate_toc
generate_toc(sections) ==
    LET entries == collect_toc_entries(sections, sections.root, 0)
    IN IF entries = <<>> THEN <<>>
       ELSE Join(<<TOC_OPEN>> \o [k \in 1..Len(entries) |-> toc_line(entries[k])]
                 \o <<TOC_CLOSE>>, NL)

find_roots_on_page(res, list, page_number) ==
    SelectSeq(list, LAMBDA i : res.secs[i].page_start = page_number)

\* MarkdownConverter._find_sections_on_page
RECURSIVE find_sections_on_page(_, _, _)
find_sections_on_page(res, list, page_number) ==
    IF list = <<>> THEN <<>>
    ELSE LET section == res.secs[Head(list)]
         IN (IF section.page_start = page_number THEN <<Head(list)>> ELSE <<>>)
            \o find_sections_on_page(res, section.subsections, page_number)
            \o find_sections_on_page(res, Tail(list), page_number)

\* MarkdownConverter._render_list_items
render_list_items(items) ==
    IF items = <<>> THEN <<>>
    ELSE LET base_x == CHOOSE x \in {items[k].bbox[1] : k \in 1..Len(items)} :
                           \A k \in 1..Len(items) : x <= items[k].bbox[1]
             line(item) ==
                 LET indent_offset == item.bbox[1] - base_x
                     nesting_level == IF indent_offset > 15
                                      THEN indent_offset \div 30 ELSE 0
                 IN Repeat(<<" ", " ">>, nesting_level) \o <<"-", " ">> \o item.text
         IN Join([k \in 1..Len(items) |-> line(items[k])], NL)

\* the loop of _render_blocks from block k on
RECURSIVE render_blocks_loop(_, _, _, _)
render_blocks_loop(bs, k, parts, list_items) ==
    IF k > Len(bs)
    THEN IF list_items # <<>> THEN Append(parts, render_list_items(list_items))
         ELSE parts
    ELSE IF bs[k].block_type = "list_item"
         THEN render_blocks_loop(bs, k + 1, parts, Append(list_items, bs[k]))
         ELSE LET flushed == IF list_items # <<>>
                             THEN Append(parts, render_list_items(list_items))
                             ELSE parts
              IN render_blocks_loop(bs, k + 1, Append(flushed, bs[k].text), <<>>)

\* MarkdownConverter._render_blocks
render_blocks(bs) == Join(NonEmpty(render_blocks_loop(bs, 1, <<>>, <<>>)), NLNL)

table_line(cells) == <<"|", " ">> \o Join(cells, <<" ", "|", " ">>) \o <<" ", "|">>

\* MarkdownConverter._render_table
render_table(table) ==
    IF table.rows = <<>> THEN <<>>
    ELSE LET header == table.rows[1]
             col_count == Len(header)
             padded(row) == row \o [k \in 1..(col_count - Len(row)) |-> <<>>]
             data == [k \in 1..(Len(table.rows) - 1) |->
                         table_line(SubSeq(padded(table.rows[k + 1]), 1, col_count))]
         IN Join(<<table_line(header),
                   table_line([k \in 1..col_count |-> <<"-", "-", "-">>])>>
                 \o data, NL)

\* MarkdownConverter._render_content
render_content(c) ==
    LET text == IF c.reading_order_blocks # <<>>
                THEN <<render_blocks(c.reading_order_blocks)>>
                ELSE IF c.body_text # <<>> THEN <<c.body_text>> ELSE <<>>
        parts == text \o [k \in 1..Len(c.tables) |-> render_table(c.tables[k])]
    IN Join(NonEmpty(parts), NLNL)

section_parts_one_hash(section) ==
    <<SECTION_OPEN \o section.title \o COMMENT_CLOSE,
      <<"#", " ">> \o section.title>>
    \o (IF section.content # <<>> THEN <<section.content>> ELSE <<>>)

section_parts(section) ==
    <<SECTION_OPEN \o section.title \o COMMENT_CLOSE,
      Repeat(<<"#">>, section.level) \o <<" ">> \o section.title>>
    \o (IF section.content # <<>> THEN <<section.content>> ELSE <<>>)

RECURSIVE sections_parts(_, _)
sections_parts(res, list) ==
    IF list = <<>> THEN <<>>
    ELSE section_parts(res.secs[Head(list)]) \o sections_parts(res, Tail(list))

\* the parts to_markdown appends for one page
page_parts(d, page) ==
    LET rendered_blocks == render_content(page.content)
    IN <<PAGE_OPEN \o IntStr(page.page_number) \o COMMENT_CLOSE>>
       \o sections_parts(d.sections,
              find_sections_on_page(d.sections, d.sections.root, page.page_number))
       \o (IF rendered_blocks # <<>> THEN <<rendered_blocks>> ELSE <<>>)

RECURSIVE pages_parts(_, _)
pages_parts(d, k) ==
    IF k > Len(d.pages) THEN <<>>
    ELSE page_parts(d, d.pages[k]) \o pages_parts(d, k + 1)

\* MarkdownConverter.to_markdown
to_markdown(d) ==
    LET toc == generate_toc(d.sections)
        parts == (IF toc # <<>> THEN <<toc>> ELSE <<>>) \o pages_parts(d, 1)
    IN IF parts # <<>> THEN Join(parts, NLNL) \o NL ELSE <<>>

(***************************************************************************)
(* MarkdownConverter.from_markdown.  Line indices (i) count from 0 as in   *)
(* the code; the line at index i is lines[i + 1].                          *)
(***************************************************************************)
\* re.sub(r"<!-- toc -->.*?<!-- /toc -->\s*", "", text, flags=re.DOTALL)
RECURSIVE strip_toc(_)
strip_toc(text) ==
    LET a == IndexOf(text, TOC_OPEN, 1)
        b == IF a = 0 THEN 0 ELSE IndexOf(text, TOC_CLOSE, a + Len(TOC_OPEN))
    IN IF b = 0 THEN text
       ELSE SubSeq(text, 1, a - 1)
            \o strip_toc(LStrip(From(text, b + Len(TOC_CLOSE))))

\* "<!-- page: (\d+) -->" stands at position k of text
PageMarkerAt(text, k) ==
    /\ StartsWithAt(text, PAGE_OPEN, k)
    /\ DigitsRun(text, k + Len(PAGE_OPEN)) >= 1
    /\ StartsWithAt(text, COMMENT_CLOSE,
                    k + Len(PAGE_OPEN) + DigitsRun(text, k + Len(PAGE_OPEN)))

\* the first page marker of text, 0 if none
FirstPageMarker(text) ==
    LET ks == {k \in 1..Len(text) : PageMarkerAt(text, k)}
    IN IF ks = {} THEN 0 ELSE CHOOSE k \in ks : \A j \in ks : k <= j

RECURSIVE ChunksFrom_skip_blank(_)
ChunksFrom_skip_blank(text) ==
    LET d == DigitsRun(text, 1 + Len(PAGE_OPEN))
        page_number == ParseInt(SubSeq(text, 1 + Len(PAGE_OPEN), Len(PAGE_OPEN) + d))
        after == From(text, 1 + Len(PAGE_OPEN) + d + Len(COMMENT_CLOSE))
        n == FirstPageMarker(after)
        chunk_text == IF n = 0 THEN after ELSE SubSeq(after, 1, n - 1)
        pair == IF Strip(chunk_text) = <<>> THEN <<>>
                ELSE << <<page_number, chunk_text>> >>
    IN IF n = 0 THEN pair ELSE pair \o ChunksFrom_skip_blank(From(after, n))

\* the pairs from a text that starts with a page marker
RECURSIVE ChunksFrom(_)
ChunksFrom(text) ==
    LET d == DigitsRun(text, 1 + Len(PAGE_OPEN))
        page_number == ParseInt(SubSeq(text, 1 + Len(PAGE_OPEN), Len(PAGE_OPEN) + d))
        after == From(text, 1 + Len(PAGE_OPEN) + d + Len(COMMENT_CLOSE))
        n == FirstPageMarker(after)
    IN IF n = 0 THEN << <<page_number, after>> >>
       ELSE << <<page_number, SubSeq(after, 1, n - 1)>> >> \o ChunksFrom(From(after, n))

\* MarkdownConverter._split_by_pages
split_by_pages(text) ==
    LET k == FirstPageMarker(text)
    IN IF k = 0 THEN <<>> ELSE ChunksFrom(From(text, k))

\* re.match(r"^<!-- section: (.+?) -->$", t) for a stripped line t
section_match(t) ==
    /\ StartsWith(t, SECTION_OPEN)
    /\ EndsWith(t, COMMENT_CLOSE)
    /\ Len(t) >= Len(SECTION_OPEN) + 1 + Len(COMMENT_CLOSE)

\* group(1) of section_match
section_title(t) == SubSeq(t, Len(SECTION_OPEN) + 1, Len(t) - Len(COMMENT_CLOSE))

\* re.match(r"^(#{1,6})\s+(.+)$", t) and re.match(r"^#{1,6}\s+", t) for a
\* stripped line t
heading_match(t) ==
    LET hashes == LeadingHashes(t)
    IN hashes >= 1 /\ hashes <= 6 /\ Len(t) > hashes /\ IsSpace(t[hashes + 1])

\* re.match(r"^<!-- (section:|page:)", t)
marker_match(t) == StartsWith(t, SECTION_PREFIX) \/ StartsWith(t, PAGE_PREFIX)

\* re.match(r"^(\s*)- ", line)
list_prefix_match(line) ==
    LET indent == LeadingSpaces(line)
    IN Len(line) >= indent + 2 /\ line[indent + 1] = "-" /\ line[indent + 2] = " "

\* re.match(r"^(\s*)- (.+)$", line)
list_match(line) ==
    LET indent == LeadingSpaces(line)
    IN Len(line) >= indent + 3 /\ line[indent + 1] = "-" /\ line[indent + 2] = " "

\* MarkdownConverter._strip_section_markers
strip_section_markers(text) ==
    Join(SelectSeq(Split(text, "\n"), LAMBDA line : ~section_match(Strip(line))), NL)

\* while i < len(lines) and not lines[i].strip(): i += 1
RECURSIVE SkipBlank(_, _)
SkipBlank(lines, i) ==
    IF i < Len(lines) /\ Strip(lines[i + 1]) = <<>> THEN SkipBlank(lines, i + 1) ELSE i

\* the index where the collection of section content stops
RECURSIVE ContentEnd(_, _)
ContentEnd(lines, i) ==
    IF i < Len(lines) /\ ~marker_match(Strip(lines[i + 1]))
    THEN ContentEnd(lines, i + 1) ELSE i

\* lines[i:j]
Slice(lines, i, j) == SubSeq(lines, i + 1, j)

\* one iteration of the loop of _parse_sections_from_chunk at index i:
\* the next index and what is appended to sections and to remaining_lines
sections_step(lines, i, page_number) ==
    LET line == lines[i + 1]
        t == Strip(line)
    IN IF section_match(t)
       THEN LET h == SkipBlank(lines, i + 1)
                has_heading == h < Len(lines) /\ heading_match(Strip(lines[h + 1]))
                stop == IF has_heading THEN ContentEnd(lines, h + 1) ELSE h
            IN [i |-> stop,
                sections |->
                    <<[title |-> section_title(t),
                       level |-> IF has_heading
                                 THEN LeadingHashes(Strip(lines[h + 1])) ELSE 1,
                       content |-> IF has_heading
                                   THEN Strip(Join(Slice(lines, h + 1, stop), NL))
                                   ELSE <<>>,
                       page_start |-> page_number,
                       page_end |-> page_number,
                       subsections |-> <<>>]>>,
                remaining_lines |-> <<>>]
       ELSE [i |-> i + 1, sections |-> <<>>, remaining_lines |-> <<line>>]

RECURSIVE sections_loop(_, _, _, _, _)
sections_loop(lines, i, page_number, sections, remaining_lines) ==
    IF i >= Len(lines)
    THEN [sections |-> sections, remaining_text |-> Join(remaining_lines, NL)]
    ELSE LET s == sections_step(lines, i, page_number)
         IN sections_loop(lines, s.i, page_number, sections \o s.sections,
                          remaining_lines \o s.remaining_lines)

\* MarkdownConverter._parse_sections_from_chunk
parse_sections_from_chunk(chunk_text, page_number) ==
    sections_loop(Split(chunk_text, "\n"), 0, page_number, <<>>, <<>>)

\* all(re.match(r"^-+$", c.strip()) for c in cells if c.strip())
is_separator(cells) ==
    \A k \in 1..Len(cells) :
        Strip(cells[k]) # <<>> =>
            \A j \in 1..Len(Strip(cells[k])) : Strip(cells[k])[j] = "-"

\* [c.strip() for c in line.strip("|").split("|")]
table_cells(line) ==
    LET raw == Split(StripChar(line, "|"), "|")
    IN [k \in 1..Len(raw) |-> Strip(raw[k])]

RECURSIVE table_rows_any_separator(_, _)
table_rows_any_separator(lines, i) ==
    IF i >= Len(lines) THEN <<>>
    ELSE IF i >= 1 /\ is_separator(table_cells(lines[i + 1]))
         THEN table_rows_any_separator(lines, i + 1)
         ELSE <<table_cells(lines[i + 1])>> \o table_rows_any_separator(lines, i + 1)

RECURSIVE table_rows(_, _)
table_rows(lines, i) ==
    IF i >= Len(lines) THEN <<>>
    ELSE IF i = 1 /\ is_separator(table_cells(lines[i + 1]))
         THEN table_rows(lines, i + 1)
         ELSE <<table_cells(lines[i + 1])>> \o table_rows(lines, i + 1)

\* MarkdownConverter._parse_table: <<>> for None, <<table>> for a table
parse_table(lines) ==
    IF Len(lines) < 2 THEN <<>>
    ELSE IF table_rows(lines, 0) # <<>> THEN <<[rows |-> table_rows(lines, 0)]>>
    ELSE <<>>

is_table_line(line) == StartsWith(Strip(line), <<"|">>)

\* while i < len(lines) and lines[i].strip().startswith("|"): i += 1
RECURSIVE TableEnd(_, _)
TableEnd(lines, i) ==
    IF i < Len(lines) /\ is_table_line(lines[i + 1]) THEN TableEnd(lines, i + 1) ELSE i

\* the four breaks of the paragraph loop
para_break(l) ==
    \/ Strip(l) = <<>>
    \/ is_table_line(l)
    \/ list_prefix_match(l)
    \/ heading_match(Strip(l))

\* the index where the paragraph loop stops
RECURSIVE ParaEnd(_, _)
ParaEnd(lines, i) ==
    IF i < Len(lines) /\ ~para_break(lines[i + 1]) THEN ParaEnd(lines, i + 1) ELSE i

DefaultBbox == <<0, 0, 0, 0>>

StripAll(lines) == [k \in 1..Len(lines) |-> Strip(lines[k])]

\* one iteration of the loop of _parse_extracted_content at index i
content_step(lines, i, bs, ts) ==
    LET line == lines[i + 1]
    IN IF Strip(line) = <<>>
       THEN [i |-> i + 1, blocks |-> bs, tables |-> ts]
       ELSE IF is_table_line(line)
       THEN LET stop == TableEnd(lines, i)
            IN [i |-> stop, blocks |-> bs,
                tables |-> ts \o parse_table(StripAll(Slice(lines, i, stop)))]
       ELSE IF list_match(line)
       THEN LET indent == LeadingSpaces(line)
                nesting == indent \div 2
            IN [i |-> i + 1,
                blocks |-> Append(bs, [text |-> From(line, indent + 3),
                                       bbox |-> <<10 + nesting * 30, 0, 0, 0>>,
                                       block_type |-> "list_item"]),
                tables |-> ts]
       ELSE IF heading_match(Strip(line))
       THEN [i |-> i + 1,
             blocks |-> Append(bs, [text |-> Strip(line), bbox |-> DefaultBbox,
                                    block_type |-> "heading"]),
             tables |-> ts]
       ELSE LET stop == ParaEnd(lines, i)
                para_lines == StripAll(Slice(lines, i, stop))
            IN [i |-> stop,
                blocks |-> IF para_lines # <<>>
                           THEN Append(bs, [text |-> Join(para_lines, NL),
                                            bbox |-> DefaultBbox,
                                            block_type |-> "paragraph"])
                           ELSE bs,
                tables |-> ts]

\* the texts of the paragraph blocks
ParagraphTexts(bs) ==
    LET ps == SelectSeq(bs, LAMBDA b : b.block_type = "paragraph")
    IN [k \in 1..Len(ps) |-> ps[k].text]

\* the ExtractedContent _parse_extracted_content returns
extracted_content(bs, ts) ==
    [body_text |-> Join(ParagraphTexts(bs), NLNL),
     headers |-> <<>>, footers |-> <<>>,
     tables |-> ts, reading_order_blocks |-> bs]

\* the PageContent from_markdown appends
parsed_page(page_number, extracted) ==
    [page_number |-> page_number, classification |-> "native_text",
     content |-> extracted, ocr_confidence |-> <<>>]

(***************************************************************************)
(* SpecCodec: to_markdown applied to a document and from_markdown applied  *)
(* to its output, or from_markdown applied to a text.                      *)
(*                                                                         *)
(* The sections of an input document are built by the hierarchy builder    *)
(* from doc_flat.  from_markdown runs in steps: the loop over the page     *)
(* chunks and, inside it, the loop of _parse_extracted_content over the    *)
(* lines of the page.  iterations counts the iterations of that loop for   *)
(* the current page; the model follows the loop for MaxExtraIterations     *)
(* iterations beyond the number of lines.                                  *)
(***************************************************************************)
TitleOf(k) == <<UpperCase[k]>>

\* levels and starting pages of m sections in non-decreasing page order
FlatChoices(m) ==
    {f \in [1..m -> Levels \X (1..MaxDocPages)] :
        \A k \in 1..(m - 1) : f[k][2] <= f[k + 1][2]}

FlatOf(f, c, e) ==
    [k \in 1..Len(f) |->
        [title |-> TitleOf(k), level |-> f[k][1],
         content |-> IF k = 1 THEN c ELSE <<>>,
         page_start |-> f[k][2],
         page_end |-> f[k][2] + (IF k = Len(f) THEN e ELSE 0),
         subsections |-> <<>>]]

\* flat sections: the first may have free text, the last may span two pages
DocFlatInputs ==
    {FlatOf(f, c, e) : f \in UNION {FlatChoices(m) : m \in 0..MaxSections},
                       c \in {<<>>, <<"c">>}, e \in {0, 1}}

ParagraphContent ==
    [body_text |-> <<"p">>, headers |-> <<>>, footers |-> <<>>, tables |-> <<>>,
     reading_order_blocks |-> <<Paragraph(<<"p">>, DefaultBbox)>>]

\* n pages numbered 1..n: without content, the first with a paragraph, or
\* each with a paragraph
PagesOf(n, fill) ==
    [k \in 1..n |->
        [page_number |-> k, classification |-> "native_text",
         content |-> IF fill = "all" \/ (fill = "first" /\ k = 1)
                     THEN ParagraphContent ELSE NoContent,
         ocr_confidence |-> <<>>]]

DocPagesInputs == {PagesOf(n, fill) : n \in 0..MaxDocPages,
                                      fill \in {"none", "first", "all"}}

\* an ExtractedContent with the blocks bs and the tables ts
ContentOf(bs, ts) ==
    [body_text |-> <<>>, headers |-> <<>>, footers |-> <<>>, tables |-> ts,
     reading_order_blocks |-> bs]

PageOf(n, c) ==
    [page_number |-> n, classification |-> "native_text", content |-> c,
     ocr_confidence |-> <<>>]

\* list items at the canonical x-positions 10, 40 and 70, and a paragraph
ListBlockInputs ==
    {ListItem(<<"a">>, <<10, 0, 0, 0>>), ListItem(<<"b">>, <<40, 0, 0, 0>>),
     ListItem(<<"c">>, <<70, 0, 0, 0>>), Paragraph(<<"p">>, DefaultBbox)}

\* one page with up to MaxBlocks list items and paragraphs
ListPagesInputs ==
    {<<PageOf(1, ContentOf(bs, <<>>))>> :
        bs \in SeqsUpTo(ListBlockInputs, MaxBlocks) \ {<<>>}}

\* tables: a header alone, two full rows, a short and a long data row, a
\* data row of dashes, empty cells, a cell with a leading space, a header
\* without cells
TableInputs ==
    {[rows |-> <<<<<<"a">>>>>>],
     [rows |-> <<<<<<"a">>, <<"b">>>>, <<<<"c">>, <<"d">>>>>>],
     [rows |-> <<<<<<"a">>, <<"b">>>>, <<<<"c">>>>>>],
     [rows |-> <<<<<<"a">>>>, <<<<"b">>, <<"c">>>>>>],
     [rows |-> <<<<<<"a">>>>, <<<<"-", "-", "-">>>>>>],
     [rows |-> <<<<<<>>, <<"b">>>>, <<<<"c">>, <<>>>>>>],
     [rows |-> <<<<<<" ", "a">>>>>>],
     [rows |-> <<<<>>>>]}

\* one page with up to MaxTables tables, alone or after a paragraph
TablePagesInputs ==
    {<<PageOf(1, ContentOf(bs, ts))>> :
        bs \in {<<>>, <<Paragraph(<<"p">>, DefaultBbox)>>},
        ts \in SeqsUpTo(TableInputs, MaxTables) \ {<<>>}}

\* pages whose numbers are not 1..n: the first with a paragraph, the others
\* without content
NumberedPagesInputs ==
    {[k \in 1..Len(ns) |->
         PageOf(ns[k], IF k = 1 THEN ParagraphContent ELSE NoContent)] :
        ns \in {<<2>>, <<2, 1>>, <<1, 1>>, <<12, 3>>}}

DocumentFrom(flat, ps) ==
    [sections |-> PDFProcessor_build_section_hierarchy(flat), pages |-> ps]

RawLineInputs ==
    {<<>>, <<"x">>, <<"-", " ">>, <<"-", " ", "x">>, <<"#", " ", "h">>,
     <<"|", " ", "a", " ", "|">>, SECTION_OPEN \o <<"A">> \o COMMENT_CLOSE}

\* a text without page marker, or one page marker and up to MaxRawLines lines
RawTexts ==
    {<<>>, <<" ", "\n">>, <<"x">>}
    \cup {PAGE_OPEN \o <<"1">> \o COMMENT_CLOSE \o NL \o Join(ls, NL) :
             ls \in SeqsUpTo(RawLineInputs, MaxRawLines)}

CodecInit ==
    /\ \/ /\ c_pc = "to_markdown"
          /\ doc_flat \in DocFlatInputs
          /\ \E ps \in DocPagesInputs :
                /\ \A k \in 1..Len(doc_flat) : doc_flat[k].page_start <= Len(ps)
                /\ document = DocumentFrom(doc_flat, ps)
          /\ markdown_str = <<>>
       \/ /\ c_pc = "to_markdown"
          /\ doc_flat = <<>>
          /\ \E ps \in ListPagesInputs \cup TablePagesInputs \cup NumberedPagesInputs :
                document = DocumentFrom(<<>>, ps)
          /\ markdown_str = <<>>
       \/ /\ c_pc = "from_markdown"
          /\ doc_flat = <<>>
          /\ document = NoDocument
          /\ markdown_str \in RawTexts
    /\ page_chunks = <<>>
    /\ chunk_k = 0
    /\ all_sections = <<>>
    /\ md_pages = <<>>
    /\ scan_lines = <<>>
    /\ scan_i = 0
    /\ blocks = <<>>
    /\ tables = <<>>
    /\ iterations = 0
    /\ restored = NoDocument
    /\ ProcIdle
    /\ HierIdle
    /\ MergeIdle

ToMarkdown ==
    /\ c_pc = "to_markdown"
    /\ markdown_str' = to_markdown(document)
    /\ c_pc' = "from_markdown"
    /\ UNCHANGED <<doc_flat, document, page_chunks, chunk_k, all_sections, md_pages,
                   scan_lines, scan_i, blocks, tables, iterations, restored>>
    /\ UNCHANGED <<procVars, hierVars, mergeVars>>

\* from_markdown up to the loop over page_chunks
FromMarkdown ==
    /\ c_pc = "from_markdown"
    /\ IF Strip(markdown_str) = <<>>
       THEN /\ restored' = NoDocument
            /\ c_pc' = "returned"
            /\ UNCHANGED <<page_chunks, chunk_k>>
       ELSE /\ page_chunks' = split_by_pages(strip_toc(markdown_str))
            /\ chunk_k' = 0
            /\ c_pc' = "chunk"
            /\ UNCHANGED restored
    /\ UNCHANGED <<doc_flat, document, markdown_str, all_sections, md_pages,
                   scan_lines, scan_i, blocks, tables, iterations>>
    /\ UNCHANGED <<procVars, hierVars, mergeVars>>

\* the next (page_number, chunk_text): its sections, and the start of
\* _parse_extracted_content on its text
ParseChunk ==
    /\ c_pc = "chunk"
    /\ chunk_k < Len(page_chunks)
    /\ LET page_number == page_chunks[chunk_k + 1][1]
           chunk_text == page_chunks[chunk_k + 1][2]
           text == Strip(strip_section_markers(chunk_text))
       IN /\ all_sections' = all_sections
                 \o parse_sections_from_chunk(chunk_text, page_number).sections
          /\ IF text = <<>>
             THEN /\ md_pages' = Append(md_pages, parsed_page(page_number, NoContent))
                  /\ chunk_k' = chunk_k + 1
                  /\ UNCHANGED <<c_pc, scan_lines>>
             ELSE /\ scan_lines' = Split(text, "\n")
                  /\ c_pc' = "scan"
                  /\ UNCHANGED <<md_pages, chunk_k>>
    /\ scan_i' = 0
    /\ blocks' = <<>>
    /\ tables' = <<>>
    /\ iterations' = 0
    /\ UNCHANGED <<doc_flat, document, markdown_str, page_chunks, restored>>
    /\ UNCHANGED <<procVars, hierVars, mergeVars>>

\* one iteration of the while loop of _parse_extracted_content
ScanLine ==
    /\ c_pc = "scan"
    /\ scan_i < Len(scan_lines)
    /\ iterations < Len(scan_lines) + MaxExtraIterations
    /\ LET s == content_step(scan_lines, scan_i, blocks, tables)
       IN /\ scan_i' = s.i
          /\ blocks' = s.blocks
          /\ tables' = s.tables
    /\ iterations' = iterations + 1
    /\ UNCHANGED <<c_pc, doc_flat, document, markdown_str, page_chunks, chunk_k,
                   all_sections, md_pages, scan_lines, restored>>
    /\ UNCHANGED <<procVars, hierVars, mergeVars>>

\* the loop has ended: the page is appended
FinishPage ==
    /\ c_pc = "scan"
    /\ scan_i >= Len(scan_lines)
    /\ md_pages' = Append(md_pages, parsed_page(page_chunks[chunk_k + 1][1],
                                                extracted_content(blocks, tables)))
    /\ chunk_k' = chunk_k + 1
    /\ c_pc' = "chunk"
    /\ UNCHANGED <<doc_flat, document, markdown_str, page_chunks, all_sections,
                   scan_lines, scan_i, blocks, tables, iterations, restored>>
    /\ UNCHANGED <<procVars, hierVars, mergeVars>>

\* after the last chunk: the hierarchy is built and the Document returned
ReturnDocument ==
    /\ c_pc = "chunk"
    /\ chunk_k >= Len(page_chunks)
    /\ restored' = [sections |-> MarkdownConverter_build_section_hierarchy(all_sections),
                    pages |-> md_pages]
    /\ c_pc' = "returned"
    /\ UNCHANGED <<doc_flat, document, markdown_str, page_chunks, chunk_k,
                   all_sections, md_pages, scan_lines, scan_i, blocks, tables,
                   iterations>>
    /\ UNCHANGED <<procVars, hierVars, mergeVars>>

CodecNext ==
    \/ ToMarkdown
    \/ FromMarkdown
    \/ ParseChunk
    \/ ScanLine
    \/ FinishPage
    \/ ReturnDocument

SpecCodec == CodecInit /\ [][CodecNext]_vars

(***************************************************************************)
(* Reading a run of the codec.                                             *)
(***************************************************************************)
\* from_markdown has returned and its input was to_markdown(document)
RoundTrip == c_pc = "returned" /\ markdown_str = to_markdown(document)

\* the sections of a forest in pre-order, each with its depth
RECURSIVE ForestShape(_, _, _)
ForestShape(res, list, depth) ==
    IF list = <<>> THEN <<>>
    ELSE LET section == res.secs[Head(list)]
         IN <<[title |-> section.title, level |-> section.level,
               page_start |-> section.page_start, page_end |-> section.page_end,
               content |-> section.content, depth |-> depth]>>
            \o ForestShape(res, section.subsections, depth + 1)
            \o ForestShape(res, Tail(list), depth)

ShapeOf(d) == ForestShape(d.sections, d.sections.root, 0)

SectionContents(d) == [k \in 1..Len(ShapeOf(d)) |-> ShapeOf(d)[k].content]

SectionsWithoutEnd(d) ==
    [k \in 1..Len(ShapeOf(d)) |->
        [title |-> ShapeOf(d)[k].title, level |-> ShapeOf(d)[k].level,
         page_start |-> ShapeOf(d)[k].page_start, depth |-> ShapeOf(d)[k].depth]]

SectionsWithEnd(d) ==
    [k \in 1..Len(ShapeOf(d)) |->
        [title |-> ShapeOf(d)[k].title, level |-> ShapeOf(d)[k].level,
         page_start |-> ShapeOf(d)[k].page_start,
         page_end |-> ShapeOf(d)[k].page_end, depth |-> ShapeOf(d)[k].depth]]

\* kinds and texts of the reading-order blocks of each page
PageBlocks(d) ==
    [k \in 1..Len(d.pages) |->
        [j \in 1..Len(d.pages[k].content.reading_order_blocks) |->
            [block_type |-> d.pages[k].content.reading_order_blocks[j].block_type,
             text |-> d.pages[k].content.reading_order_blocks[j].text]]]

\* C6: from_markdown(to_markdown(d)) has for every section the free-text
\* content of d and for every page the reading-order blocks of d (kinds and
\* texts): no block is added and no page content moves into a section.
RoundTripKeepsContentAndBlocks ==
    RoundTrip =>
        /\ SectionContents(restored) = SectionContents(document)
        /\ PageBlocks(restored) = PageBlocks(document)

\* every flat section the forest was built from covers one page
SinglePageSections ==
    \A k \in 1..Len(doc_flat) : doc_flat[k].page_end = doc_flat[k].page_start

\* C7 as stated: for a forest built from a flat sequence in non-decreasing
\* page order, the round trip returns the same forest: topology, title,
\* level, pageStart and pageEnd of every section in pre-order.
SectionForestRoundTrips ==
    RoundTrip => SectionsWithEnd(restored) = SectionsWithEnd(document)

\* C7 amended: the round trip returns the same topology, titles, levels and
\* pageStarts; pageEnd too when every flat section covered one page.
SectionForestRoundTripsUpToPageEnd ==
    RoundTrip =>
        /\ SectionsWithoutEnd(restored) = SectionsWithoutEnd(document)
        /\ SinglePageSections =>
               SectionsWithEnd(restored) = SectionsWithEnd(document)

\* a forest with a nested section on a later page has made the round trip
NestedForestRestoredReached ==
    /\ RoundTrip
    /\ SinglePageSections
    /\ Len(doc_flat) = 2
    /\ doc_flat[1].page_start = 1
    /\ doc_flat[2].page_start = 2
    /\ Len(restored.sections.root) = 1
    /\ restored.sections.secs[1].subsections = <<2>>
    /\ restored.sections.secs[1].page_end = 2

\* the section scan at every index of every chunk moves on
SectionScanConsumes ==
    \A c \in 1..Len(page_chunks) :
        LET lines == Split(page_chunks[c][2], "\n")
        IN \A j \in 0..(Len(lines) - 1) :
               sections_step(lines, j, page_chunks[c][1]).i > j

\* C8: from_markdown returns a Document for every text: every iteration of
\* the block scan and of the section scan consumes at least one line, so the
\* scans end, and an empty or whitespace-only text gives the empty document.
FromMarkdownConsumesALinePerIteration ==
    /\ [][iterations' = iterations + 1 => scan_i' > scan_i]_vars
    /\ [](c_pc = "scan" => iterations <= Len(scan_lines))
    /\ [](c_pc = "chunk" => SectionScanConsumes)
    /\ [](c_pc = "returned" /\ Strip(markdown_str) = <<>> => restored = NoDocument)

\* the line of the table of contents for section s: two spaces per depth,
\* the title as link text, the page range at the end
IsTocEntryFor(line, s) ==
    /\ LeadingSpaces(line) = 2 * s.depth
    /\ StartsWithAt(line, <<"-", " ", "[">> \o s.title \o <<"]", "(", "#">>,
                    2 * s.depth + 1)
    /\ EndsWith(line, <<" ", "(", "p", ".", " ">> \o IntStr(s.page_start)
                      \o <<"-">> \o IntStr(s.page_end) \o <<")">>)

\* text opens with one table of contents that lists the sections of d in
\* pre-order, or has none when d has no section
HasTocOf(text, d) ==
    LET lines == Split(text, "\n")
        S == Len(ShapeOf(d))
    IN IF S = 0
       THEN IndexOf(text, TOC_OPEN, 1) = 0 /\ IndexOf(text, TOC_CLOSE, 1) = 0
       ELSE /\ Len(lines) >= S + 2
            /\ lines[1] = TOC_OPEN
            /\ \A k \in 1..S : IsTocEntryFor(lines[k + 1], ShapeOf(d)[k])
            /\ lines[S + 2] = TOC_CLOSE
            /\ IndexOf(text, TOC_OPEN, 2) = 0
            /\ IndexOf(text, TOC_CLOSE, 1) = IndexOf(text, NL \o TOC_CLOSE \o NL, 1) + 1
            /\ IndexOf(text, TOC_CLOSE, IndexOf(text, TOC_CLOSE, 1) + 1) = 0

RECURSIVE HeadingsOf(_)
HeadingsOf(ps) ==
    IF ps = <<>> THEN <<>>
    ELSE LET bs == SelectSeq(Head(ps).content.reading_order_blocks,
                             LAMBDA b : /\ b.block_type = "heading"
                                        /\ \E k \in 1..Len(b.text) : ~IsSpace(b.text[k]))
         IN [k \in 1..Len(bs) |-> [text |-> bs[k].text, page |-> Head(ps).page_number]]
            \o HeadingsOf(Tail(ps))

\* C30: section derivation runs only after the last page has been attempted;
\* every derived section stems from a non-blank heading block of a processed
\* page: its page_start is the number of a page of the document (a skipped
\* page gives no section), its page_end >= page_start, and the derived
\* sections are in pre-order in non-decreasing page_start order.
SectionsStemFromProcessedPages ==
    /\ [][pc' = "done" => /\ pc = "summarize"
                          /\ Len(attempted) = src_pages
                          /\ Len(pages) + Len(raised) = src_pages
                          /\ ret'[1] = pages]_vars
    /\ [](Returned =>
            LET shape == ShapeOf(Document)
                heads == HeadingsOf(ret[1])
            IN /\ Len(shape) = Len(heads)
               /\ \A k \in 1..Len(shape) :
                     /\ shape[k].title = Strip(heads[k].text)
                     /\ shape[k].page_start = heads[k].page
                     /\ shape[k].page_start - 1 \notin FailedPages
                     /\ \E j \in 1..Len(ret[1]) :
                           ret[1][j].page_number = shape[k].page_start
                     /\ shape[k].page_end >= shape[k].page_start
                     /\ k > 1 => shape[k - 1].page_start <= shape[k].page_start)

\* page 1 was skipped; page 2, a mixed page, has a heading and a blank
\* heading: one section, starting on page 2
SectionsOfSecondPageOnlyReached ==
    /\ Returned
    /\ FailedPages = {0}
    /\ Len(ret[1]) = 1
    /\ ret[1][1].classification = "mixed"
    /\ Len(ret[1][1].content.reading_order_blocks) = 2
    /\ \A k \in 1..2 : ret[1][1].content.reading_order_blocks[k].block_type = "heading"
    /\ Len(ShapeOf(Document)) = 1
    /\ ShapeOf(Document)[1].page_start = 2
    /\ ShapeOf(Document)[1].page_end = 2

\* C28: the two section-tree builders are the same function: for every flat
\* sequence PDFProcessor._build_section_hierarchy and
\* MarkdownConverter._build_section_hierarchy return the same forest (roots,
\* children in order, page_end of every node) and leave the sections they
\* were given in the same state.
BuildersAgree ==
    h_pc = "returned" /\ md_hierarchy # <<>> =>
        /\ md_hierarchy[1].root = hierarchy.root
        /\ md_hierarchy[1].secs = hierarchy.secs
        /\ ForestShape(md_hierarchy[1], md_hierarchy[1].root, 0)
               = ForestShape(hierarchy, hierarchy.root, 0)

\* both builders have run on three sections: a section with a subsection
\* that extends its page_end, and a second root
BothBuildersNestedReached ==
    /\ h_pc = "returned"
    /\ md_hierarchy # <<>>
    /\ Len(flat_sections) = 3
    /\ Len(md_hierarchy[1].root) = 2
    /\ md_hierarchy[1].secs[1].subsections = <<2>>
    /\ md_hierarchy[1].secs[1].page_end > flat_sections[1].page_end
    /\ hierarchy.root = <<1, 3>>

\* the text between the opening p and the closing comment mark of a marker
\* line
MarkerText(line, p) == SubSeq(line, Len(p) + 1, Len(line) - Len(COMMENT_CLOSE))

IsMarkerLine(line, p) ==
    /\ StartsWith(line, p)
    /\ EndsWith(line, COMMENT_CLOSE)
    /\ Len(line) > Len(p) + Len(COMMENT_CLOSE)

\* the section markers of the lines from line i on, in order: for each the
\* number of the last page marker above it (page), its title and the two
\* lines below it
RECURSIVE MarkersFrom(_, _, _)
MarkersFrom(lines, i, page) ==
    IF i > Len(lines) THEN <<>>
    ELSE IF IsMarkerLine(lines[i], PAGE_OPEN)
    THEN MarkersFrom(lines, i + 1, ParseInt(MarkerText(lines[i], PAGE_OPEN)))
    ELSE IF IsMarkerLine(lines[i], SECTION_OPEN)
    THEN <<[page |-> page,
            title |-> MarkerText(lines[i], SECTION_OPEN),
            below |-> SubSeq(lines, i + 1, Min(i + 2, Len(lines)))]>>
         \o MarkersFrom(lines, i + 1, page)
    ELSE MarkersFrom(lines, i + 1, page)

\* the markers the sections of d call for: page by page, and in pre-order
\* among the sections that start on a page
RECURSIVE ExpectedMarkers(_, _)
ExpectedMarkers(d, k) ==
    IF k > Len(d.pages) THEN <<>>
    ELSE LET here == SelectSeq(ShapeOf(d),
                               LAMBDA s : s.page_start = d.pages[k].page_number)
         IN [j \in 1..Len(here) |->
                [page |-> d.pages[k].page_number,
                 title |-> here[j].title,
                 below |-> <<<<>>, Repeat(<<"#">>, here[j].level) \o <<" ">>
                                   \o here[j].title>>]]
            \o ExpectedMarkers(d, k + 1)

\* the pages of d have distinct numbers and every section starts on one
SectionsStartOnPages(d) ==
    /\ \A j, k \in 1..Len(d.pages) :
          d.pages[j].page_number = d.pages[k].page_number => j = k
    /\ \A s \in 1..Len(ShapeOf(d)) :
          \E k \in 1..Len(d.pages) : d.pages[k].page_number = ShapeOf(d)[s].page_start

\* C21: for a document whose pages have distinct numbers and whose sections
\* each start on a page of the document, to_markdown emits exactly one
\* section marker per section, after the marker of its page, ordered by page
\* and in pre-order within a page, each followed by a heading line of
\* exactly level '#' characters, a space and the title.
OneMarkerAndHeadingPerSection ==
    /\ c_pc = "from_markdown"
    /\ markdown_str = to_markdown(document)
    /\ SectionsStartOnPages(document)
    => LET markers == MarkersFrom(Split(markdown_str, "\n"), 1, 0)
       IN /\ Len(markers) = Len(ShapeOf(document))
          /\ markers = ExpectedMarkers(document, 1)

\* a level-1 section on page 1 and its level-3 subsection on page 2
MarkersOnTwoPagesReached ==
    /\ c_pc = "from_markdown"
    /\ markdown_str = to_markdown(document)
    /\ Len(ShapeOf(document)) = 2
    /\ ShapeOf(document)[1].level = 1
    /\ ShapeOf(document)[1].page_start = 1
    /\ ShapeOf(document)[2].level = 3
    /\ ShapeOf(document)[2].depth = 1
    /\ ShapeOf(document)[2].page_start = 2
    /\ LET markers == MarkersFrom(Split(markdown_str, "\n"), 1, 0)
       IN /\ Len(markers) = 2
          /\ markers[1] = [page |-> 1, title |-> <<"A">>,
                           below |-> <<<<>>, <<"#", " ", "A">>>>]
          /\ markers[2] = [page |-> 2, title |-> <<"B">>,
                           below |-> <<<<>>, <<"#", "#", "#", " ", "B">>>>]

\* a table separator row: a table line whose non-empty cells are dashes
IsSeparatorRow(line) == is_table_line(line) /\ is_separator(table_cells(Strip(line)))

\* line is in the parsed page: a row of a table of ts, or a list item, a
\* heading or a line of a paragraph among the blocks bs
KeptIn(line, bs, ts) ==
    \/ /\ is_table_line(line)
       /\ \E t \in 1..Len(ts) : \E r \in 1..Len(ts[t].rows) :
             ts[t].rows[r] = table_cells(Strip(line))
    \/ \E b \in 1..Len(bs) :
          \/ /\ bs[b].block_type = "list_item"
             /\ list_match(line)
             /\ bs[b].text = From(line, LeadingSpaces(line) + 3)
          \/ /\ bs[b].block_type = "heading"
             /\ bs[b].text = Strip(line)
          \/ /\ bs[b].block_type = "paragraph"
             /\ \E l \in 1..Len(Split(bs[b].text, "\n")) :
                   Split(bs[b].text, "\n")[l] = Strip(line)

\* C25: from_markdown drops no page content: when the block scan of a page
\* chunk ends, every non-blank line of the chunk that is not a section marker
\* or a table separator row is a table row, a list-item block, a heading
\* block or a line of a paragraph block of the parsed page.
NoLineOfThePageDropped ==
    c_pc = "scan" /\ scan_i >= Len(scan_lines) =>
        \A j \in 1..Len(scan_lines) :
            Strip(scan_lines[j]) # <<>> /\ ~IsSeparatorRow(scan_lines[j]) =>
                KeptIn(scan_lines[j], blocks, tables)

PageNumbers(d) == [k \in 1..Len(d.pages) |-> d.pages[k].page_number]

\* the numbers of the page-marker lines among lines, in order
RECURSIVE MarkerNumbersOf(_)
MarkerNumbersOf(lines) ==
    IF lines = <<>> THEN <<>>
    ELSE (IF IsMarkerLine(Head(lines), PAGE_OPEN)
          THEN <<ParseInt(MarkerText(Head(lines), PAGE_OPEN))>> ELSE <<>>)
         \o MarkerNumbersOf(Tail(lines))

PageMarkerNumbers(text) == MarkerNumbersOf(Split(text, "\n"))

\* C22: the page sequence round-trips: to_markdown emits one page marker per
\* page, in page order and with the page's number; from_markdown returns one
\* page per marker with that number in the same order; so
\* from_markdown(to_markdown(d)) has the page count and the page-number
\* sequence of d, pages without content included.
PageSequenceRoundTrips ==
    /\ c_pc = "from_markdown" /\ markdown_str = to_markdown(document) =>
           PageMarkerNumbers(markdown_str) = PageNumbers(document)
    /\ c_pc = "returned" =>
           PageNumbers(restored) = PageMarkerNumbers(markdown_str)
    /\ RoundTrip => PageNumbers(restored) = PageNumbers(document)

\* pages 12 and 3, the second without content, have made the round trip
PagesTwelveAndThreeRestoredReached ==
    /\ RoundTrip
    /\ PageNumbers(document) = <<12, 3>>
    /\ document.pages[2].content = NoContent
    /\ PageMarkerNumbers(markdown_str) = <<12, 3>>
    /\ PageNumbers(restored) = <<12, 3>>
    /\ restored.pages[2].content = NoContent

\* the list items among the reading-order blocks of page k of d
ListItemsOf(d, k) ==
    SelectSeq(d.pages[k].content.reading_order_blocks,
              LAMBDA b : b.block_type = "list_item")

\* every item stands at an x-position 10 + 30*k
CanonicalPositions(items) ==
    \A j \in 1..Len(items) :
        items[j].bbox[1] >= 10 /\ (items[j].bbox[1] - 10) % 30 = 0

\* text of each item and its offset from the leftmost of the items
RelativeNesting(items) ==
    [j \in 1..Len(items) |->
        [text |-> items[j].text,
         offset |-> items[j].bbox[1]
                    - (CHOOSE x \in {items[i].bbox[1] : i \in 1..Len(items)} :
                          \A i \in 1..Len(items) : x <= items[i].bbox[1])]]

\* C23: for a page whose list items stand at x-positions 10 + 30*k, the
\* round trip keeps number, order and text of the list items of the page and
\* the offset of each from the leftmost list item of the page, wherever the
\* items stand among the blocks and whatever the nesting of the first item.
ListItemsRoundTrip ==
    RoundTrip =>
        /\ Len(restored.pages) = Len(document.pages)
        /\ \A k \in 1..Len(document.pages) :
              CanonicalPositions(ListItemsOf(document, k)) =>
                  RelativeNesting(ListItemsOf(restored, k))
                      = RelativeNesting(ListItemsOf(document, k))

TablesOf(d, k) == d.pages[k].content.tables

HeadedAndStripped(ts) ==
    \A t \in 1..Len(ts) :
        /\ ts[t].rows # <<>>
        /\ Len(ts[t].rows[1]) >= 1
        /\ \A r \in 1..Len(ts[t].rows) : \A c \in 1..Len(ts[t].rows[r]) :
              /\ Strip(ts[t].rows[r][c]) = ts[t].rows[r][c]
              /\ IndexOf(ts[t].rows[r][c], <<"<", "!", "-", "-">>, 1) = 0

\* no line of the other text of page k (block texts, body text, content of
\* the sections) starts with '|' or is a bare list marker, and no list item
\* has an empty text
NoStrayLineElsewhere(d, k) ==
    LET c == d.pages[k].content
        bs == c.reading_order_blocks
        texts == [j \in 1..Len(bs) |-> bs[j].text]
                 \o <<c.body_text>> \o SectionContents(d)
    IN /\ \A j \in 1..Len(texts) :
             \A l \in 1..Len(Split(texts[j], "\n")) :
                 LET line == Split(texts[j], "\n")[l]
                 IN /\ ~is_table_line(line)
                    /\ ~(list_prefix_match(line) /\ ~list_match(line))
       /\ \A j \in 1..Len(bs) : bs[j].block_type = "list_item" => bs[j].text # <<>>

\* table with every row padded with empty cells, or cut, to the cell count
\* of the header row
FittedToHeader(table) ==
    [rows |-> [r \in 1..Len(table.rows) |->
                  [c \in 1..Len(table.rows[1]) |->
                      IF c <= Len(table.rows[r]) THEN table.rows[r][c] ELSE <<>>]]]

====
